---- MODULE Spec2Model ----
(***************************************************************************)
(* gitHelper: the bisection engine (DiagnosticEngine.find_breaking_commit)  *)
(* and the plug-in registry (PluginManager over SettingsManager).           *)
(*                                                                          *)
(* SpecEngine   : one find_breaking_commit call after another against one   *)
(*                working tree; every subprocess call is one step whose     *)
(*                exit code and captured text are drawn from small sets.    *)
(* SpecRegistry : one PluginManager over a fixed plug-in directory layout,  *)
(*                driven by discover / enable / disable / run_plugin /      *)
(*                get_enabled_plugins.                                      *)
(* SpecHistory  : the engine on scripted linear histories.                  *)
(* SpecRunner   : GitCore._run.                                             *)
(* SpecToken    : TokenManager over the in-memory keyring.                  *)
(* SpecConfig   : ConfigManager instances of one process over config.toml.  *)
(* SpecSettings : SettingsManager.disable_plugin / enable_plugin.           *)
(***************************************************************************)
EXTENDS Integers, Sequences, FiniteSets, TLC

VARIABLES
    \* ---- DiagnosticEngine.find_breaking_commit
    pc,              \* position of the call: idle, ensure, reset, start, bad, good, run, visualize, final, done
    known_good,      \* argument (None, "" or a revision)
    known_bad,       \* argument
    test_command,    \* argument (None, "" or a shell command)
    pytest_on_path,  \* what shutil.which("pytest") finds
    cmds,            \* every subprocess command issued by the current call, in order
    bisecting,       \* the working tree is in an active bisection (git's BISECT_START exists)
    output,          \* run_result.stdout + run_result.stderr, as lines of tokens
    bad_commit,      \* local of the call
    outcome,         \* none | returned | raised
    result,          \* the returned string, or the message of the raised GitCommandError
    run_returncode,  \* run_result.returncode (NotRun before the run step)
    visualize_result,\* returncode and stdout of `git bisect visualize`
    plug,            \* the frame of CodeBreakAnalyzer's run, when it made the call
    repo,            \* the repository git works on
    \* ---- PluginManager / SettingsManager
    dyn,             \* the entries of the caller-supplied search path (a set of candidate file names)
    data,            \* SettingsManager.data["disabled_plugins"] of the live instance
    store,           \* the settings file at SettingsManager.path
    loaded,          \* PluginManager._loaded
    last,            \* the last registry call: its name, arguments and outcome
    mon,             \* observer of the disable / discover / enable / discover sequence
    \* ---- GitCore._run
    runner,          \* the last _run call: its inputs and its outcome
    \* ---- TokenManager
    keyring,         \* _FallbackKeyring._storage
    token_log,       \* the save and delete calls made so far, in order
    token_call,      \* the last TokenManager call: its arguments and its outcome
    \* ---- ConfigManager
    tomli_w,         \* the tomli_w module is importable
    DEFAULT_CONFIG,  \* the module-level dict, nested dicts included
    config_files,    \* the config file at each path
    managers,        \* the ConfigManager instances of the process
    config_log,      \* the set calls made so far, in order
    config_call,     \* the last ConfigManager call
    \* ---- SettingsManager
    settings_log     \* the disable_plugin and enable_plugin calls made directly, in order

engineVars == <<pc, known_good, known_bad, test_command, pytest_on_path, cmds,
                bisecting, output, bad_commit, outcome, result, run_returncode,
                visualize_result, plug, repo>>
registryVars == <<dyn, data, store, loaded, last, mon>>
tokenVars == <<keyring, token_log, token_call>>
configVars == <<tomli_w, DEFAULT_CONFIG, config_files, managers, config_log, config_call>>
settingsVars == <<settings_log>>
utilVars == <<tokenVars, configVars, settingsVars>>
vars == <<engineVars, registryVars, runner, utilVars>>

\* Python's None, kept apart from every string the program handles.
None == "<None>"

\* Python truthiness of an Optional[str].
Truthy(s) == s # None /\ s # ""

Last(s) == s[Len(s)]

(***************************************************************************)
(* Bisection engine                                                         *)
(***************************************************************************)

\* Bound: lines of stdout the `git bisect run` step may print.
MaxOutLines == 2

PHRASE == <<"is", "the", "first", "bad", "commit">>

\* A line of captured text is the sequence of its whitespace-delimited tokens.
LineSet == { <<>>,
             <<"running", "tests">>,
             <<"c1">> \o PHRASE,
             <<"c2">> \o PHRASE }

StdoutTexts == UNION { [1..n -> LineSet] : n \in 0..MaxOutLines }
StderrTexts == { <<>>, << <<"bash:", "not", "found">> >>, << <<"c2">> \o PHRASE >> }
VisualizeTexts == { <<>>, << <<>> >>, << <<>>, <<"c3", "fix", "bug">> >>,
                    << <<"c4", "add", "feature">>, <<"c3", "fix", "bug">> >> }

\* Captured text of a failing setup command.
FailStderr == { "", "\n", "fatal: bad revision\n" }
FailStdout == { "", "usage: git bisect\n" }

\* str.strip() on the texts above.
Strip(s) ==
    CASE s = "\n" -> ""
      [] s = "  \n" -> ""
      [] s = "On branch main\n" -> "On branch main"
      [] s = "fatal: not a git repository\n" -> "fatal: not a git repository"
      [] s = "fatal: bad revision\n" -> "fatal: bad revision"
      [] s = "usage: git bisect\n" -> "usage: git bisect"
      [] OTHER -> s

\* str(exc) of a CalledProcessError.
StrExc == "Command returned non-zero exit status 1."

\* Mutant of SetupMessage: without the last fallback, str(exc).
SetupMessage_without_exc_text(stderr, stdout) ==
    IF Strip(stderr) # "" THEN Strip(stderr) ELSE Strip(stdout)

\* exc.stderr.strip() or exc.stdout.strip() or str(exc)
SetupMessage(stderr, stdout) ==
    IF Strip(stderr) # "" THEN Strip(stderr)
    ELSE IF Strip(stdout) # "" THEN Strip(stdout)
    ELSE StrExc

RESET == <<"git", "bisect", "reset">>
VISUALIZE == <<"git", "bisect", "visualize", "--oneline">>

\* The git bisect subcommand of a command line.
Verb(cmd) == cmd[3]
INCONCLUSIVE == "Unable to determine the first bad commit. Review bisect output manually."

start_cmd(bad, good) ==
    <<"git", "bisect", "start", bad>> \o (IF Truthy(good) THEN <<good>> ELSE <<>>)

run_command(test, pytest) ==
    <<"git", "bisect", "run">> \o
        (IF Truthy(test) THEN <<"bash", "-lc", test>>
         ELSE IF pytest THEN <<"pytest">>
         ELSE <<"python", "-m", "pytest">>)

\* "is the first bad commit" in line
ContainsPhrase(line) ==
    \E i \in 1..Len(line) :
        /\ i + Len(PHRASE) - 1 <= Len(line)
        /\ SubSeq(line, i, i + Len(PHRASE) - 1) = PHRASE

\* Mutant of _parse_first_bad: a later matching line replaces an earlier one.
RECURSIVE _parse_first_bad_last_match(_)
_parse_first_bad_last_match(text) ==
    IF text = <<>> THEN None
    ELSE IF _parse_first_bad_last_match(Tail(text)) # None
    THEN _parse_first_bad_last_match(Tail(text))
    ELSE IF ContainsPhrase(Head(text)) THEN Head(text)[1]
    ELSE None

RECURSIVE _parse_first_bad(_)
_parse_first_bad(text) ==
    IF text = <<>> THEN None
    ELSE IF ContainsPhrase(Head(text)) THEN Head(text)[1]
    ELSE _parse_first_bad(Tail(text))

\* Mutant of FirstToken: only the first line is looked at.
FirstToken_of_first_line(text) ==
    IF text = <<>> \/ Head(text) = <<>> THEN None ELSE Head(text)[1]

\* for line in result.stdout.splitlines(): the first token of the first line
\* that has one.
RECURSIVE FirstToken(_)
FirstToken(text) ==
    IF text = <<>> THEN None
    ELSE IF Head(text) # <<>> THEN Head(text)[1]
    ELSE FirstToken(Tail(text))

\* Mutant of _current_bisect_commit: the exit code of visualize is not looked at.
_current_bisect_commit_ignoring_exit(returncode, stdout) == FirstToken(stdout)

_current_bisect_commit(returncode, stdout) ==
    IF returncode # 0 THEN None ELSE FirstToken(stdout)

ResultString(commit) ==
    IF commit # None THEN commit \o " identified as the first bad commit."
    ELSE INCONCLUSIVE

(***************************************************************************)
(* git bisect, as the engine's subprocess calls meet it                     *)
(*                                                                          *)
(* repo.mode = "free"     : every command may exit with any of the modelled *)
(*                          codes and texts.                                *)
(* repo.mode = "scripted" : a linear history v1 = commit 0, 1, ..., n =     *)
(*                          main, checked out at main, in which the test    *)
(*                          command exits with repo.exits[i] at commit i;   *)
(*                          the commands answer as git bisect does.         *)
(***************************************************************************)

\* Bound: commits after v1 in a scripted history.
MaxCommits == 3

\* Exit codes of the test command at a commit: pass, fail, and a code of 128 or
\* more, on which `git bisect run` gives up.
ExitCodes == {0, 1, 128}

\* No revision is marked.
NoMark == 0 - 1

\* Full object names, as `git bisect` prints them, and their abbreviations, as
\* `--oneline` prints them.
FullSha == << "c1a0000000", "c2b0000000", "c3c0000000", "c4d0000000", "c5e0000000",
              "c6f0000000" >>
Abbrev == << "c1a0000", "c2b0000", "c3c0000", "c4d0000", "c5e0000", "c6f0000" >>

FreeRepo == [mode |-> "free", n |-> 0, exits |-> <<>>, head |-> 0,
             good |-> NoMark, bad |-> NoMark]

ScriptedRepos ==
    UNION { { [mode |-> "scripted", n |-> n, exits |-> exits, head |-> n,
                good |-> NoMark, bad |-> NoMark] : exits \in [1..n -> ExitCodes] } :
              n \in 1..MaxCommits }

Response(returncode, stdout, stderr, after) ==
    [returncode |-> returncode, stdout |-> stdout, stderr |-> stderr, repo |-> after]

\* The commit a revision names: HEAD is whatever is checked out now.
Resolve(r, rev) ==
    CASE rev = "HEAD" -> r.head
      [] rev = "main" -> r.n
      [] rev = "v1" -> 0
      [] OTHER -> NoMark

\* The commits that halve the candidates good+1 .. bad.
Midpoints(good, bad) ==
    { good + ((bad - good) \div 2), good + ((bad - good + 1) \div 2) }

\* What git does once a revision has been marked: nothing while a good or a
\* bad revision is missing; with both, it reports the first bad commit when one
\* candidate is left, checks out a midpoint when more are left, and fails when
\* the bad commit is also good.
AutoNext(r) ==
    IF r.good = NoMark \/ r.bad = NoMark
    THEN { [kind |-> "waiting", repo |-> r, stdout |-> <<>>] }
    ELSE IF r.bad <= r.good
    THEN { [kind |-> "both", repo |-> r,
            stdout |-> << <<FullSha[r.bad], "was", "both", "good", "and", "bad">> >>] }
    ELSE IF r.bad - r.good = 1
    THEN { [kind |-> "found", repo |-> r,
            stdout |-> << <<FullSha[r.bad]>> \o PHRASE, <<"commit", FullSha[r.bad]>> >>] }
    ELSE { [kind |-> "next", repo |-> [r EXCEPT !.head = m],
            stdout |-> << <<"Bisecting:", "revisions", "left", "to", "test">> >>] :
              m \in Midpoints(r.good, r.bad) }

\* A setup command (start, bad, good) that marked revisions.
MarkResponses(marked) ==
    { Response(IF a.kind = "both" THEN 1 ELSE 0, "", "", a.repo) : a \in AutoNext(marked) }

BadRevision(r) == Response(128, "", "fatal: bad revision\n", r)

\* `git bisect reset`: the marks are dropped and the original head is checked out.
git_reset(r) == [r EXCEPT !.head = r.n, !.good = NoMark, !.bad = NoMark]

\* `git bisect run <test>` from repository state r, having printed `lines`.
RECURSIVE RunLoop(_, _)
RunLoop(r, lines) ==
    LET code == r.exits[r.head]
        marked == IF code = 0
                  THEN [r EXCEPT !.good = IF r.head > r.good THEN r.head ELSE r.good]
                  ELSE [r EXCEPT !.bad = r.head]
        ran == Append(lines, <<"running", "tests">>)
    IN  IF code >= 128
        THEN { Response(code, ran, << <<"bisect", "run", "failed">> >>, r) }
        ELSE UNION { IF a.kind = "next" THEN RunLoop(a.repo, ran \o a.stdout)
                     ELSE IF a.kind = "found"
                     THEN { Response(0, ran \o a.stdout, <<>>, a.repo) }
                     ELSE { Response(1, ran \o a.stdout,
                                     << <<"bisect", "run", "failed">> >>, a.repo) } :
                       a \in AutoNext(marked) }

git_run(r) ==
    IF r.good = NoMark \/ r.bad = NoMark
    THEN { Response(1, <<>>, << <<"error:", "need", "a", "good", "and", "a", "bad", "revision">> >>, r) }
    ELSE RunLoop(r, <<>>)

\* `git bisect visualize --oneline`: git log of the candidates, newest first.
git_visualize(r) ==
    IF r.good = NoMark \/ r.bad = NoMark
    THEN { Response(1, <<>>, <<>>, r) }
    ELSE { Response(0,
                    [i \in 1..(IF r.bad > r.good THEN r.bad - r.good ELSE 0) |->
                        <<Abbrev[r.bad - i + 1], "subject">>],
                    <<>>, r) }

ScriptedResponses(r, cmd) ==
    CASE Verb(cmd) = "reset" -> { Response(0, "", "", git_reset(r)) }
      [] Verb(cmd) = "start" ->
            IF Resolve(r, cmd[4]) = NoMark \/ (Len(cmd) > 4 /\ Resolve(r, cmd[Len(cmd)]) = NoMark)
            THEN { BadRevision(r) }
            ELSE MarkResponses([r EXCEPT !.bad = Resolve(r, cmd[4]),
                                         !.good = IF Len(cmd) > 4 THEN Resolve(r, cmd[5])
                                                  ELSE NoMark])
      [] Verb(cmd) = "bad" ->
            IF Resolve(r, cmd[4]) = NoMark THEN { BadRevision(r) }
            ELSE MarkResponses([r EXCEPT !.bad = Resolve(r, cmd[4])])
      [] Verb(cmd) = "good" ->
            IF Resolve(r, cmd[4]) = NoMark THEN { BadRevision(r) }
            ELSE MarkResponses([r EXCEPT !.good = IF Resolve(r, cmd[4]) > r.good
                                                  THEN Resolve(r, cmd[4]) ELSE r.good])
      [] Verb(cmd) = "run" -> git_run(r)
      [] Verb(cmd) = "visualize" -> git_visualize(r)

FreeResponses(r, cmd) ==
    CASE Verb(cmd) = "reset" -> { Response(0, "", "", r) }
      [] Verb(cmd) \in {"start", "bad", "good"} ->
            { Response(0, "", "", r) }
                \cup { Response(1, stdout, stderr, r) :
                         stdout \in FailStdout, stderr \in FailStderr }
      [] Verb(cmd) = "run" ->
            { Response(returncode, stdout, stderr, r) :
                returncode \in {0, 1}, stdout \in StdoutTexts, stderr \in StderrTexts }
      [] Verb(cmd) = "visualize" ->
            { Response(returncode, stdout, <<>>, r) :
                returncode \in {0, 1}, stdout \in VisualizeTexts }

\* subprocess.run(cmd, cwd=self.git.path, capture_output=True, text=True)
Git(r, cmd) ==
    IF r.mode = "free" THEN FreeResponses(r, cmd) ELSE ScriptedResponses(r, cmd)

(***************************************************************************)
(* CodeBreakAnalyzer: the run function register() puts into its Plugin      *)
(***************************************************************************)

\* The app argument: None, an object without show_popup, an object whose
\* show_popup attribute is not callable, an object with a show_popup method.
Apps == {None, "no_popup", "popup_attribute", "popup_method"}

\* The first tokens the engine can build a summary from.
CommitTokens ==
    { FullSha[i] : i \in DOMAIN FullSha } \cup { Abbrev[i] : i \in DOMAIN Abbrev }
        \cup {"c1", "c2", "c3", "c4"}

\* summary.split()[0] if "identified as the first bad commit" in summary, else
\* None: the engine's summaries hold the phrase exactly when they start with the
\* commit token they were built from.
SuccessCommit(summary) ==
    IF \E c \in CommitTokens : summary = ResultString(c)
    THEN CHOOSE c \in CommitTokens : summary = ResultString(c)
    ELSE None

\* str(REPORT_DIR / f"diagnostic_{commit_hash}.md")
ReportPath(commit) == "~/.githelper/reports/diagnostic_" \o commit \o ".md"

TITLE == "CodeBreakAnalyzer"

\* The message, line by line (the first line is the title after its emoji).
Message(summary, report) ==
    <<TITLE, summary>> \o (IF report # None THEN <<"Report: " \o report>> ELSE <<>>)

\* The frame of a run: `value` is the returned message, line by line, or the
\* one line naming the exception that left run.
PlugIdle == [active |-> FALSE, app |-> None, status |-> "none", value |-> <<>>,
             popups |-> <<>>]

\* Mutant of Notify: show_popup is called on every app that is not None.
Notify_without_check(message, app) ==
    IF app = None
    THEN [status |-> "returned", value |-> message, popups |-> <<>>]
    ELSE IF app = "popup_method"
    THEN [status |-> "returned", value |-> message,
          popups |-> << <<TITLE, message>> >>]
    ELSE [status |-> "raised", value |-> <<"AttributeError or TypeError">>, popups |-> <<>>]

\* if hasattr(app, "show_popup") and callable(app.show_popup): app.show_popup(...)
\* and the return of the message.
Notify(message, app) ==
    [status |-> "returned", value |-> message,
     popups |-> IF app = "popup_method" THEN << <<TITLE, message>> >> ELSE <<>>]

\* How engine.generate_report(commit, summary) can end: the report is written,
\* `git show` exits non-zero (GitCommandError), or the file cannot be written.
ReportOutcomes == {"written", "GitCommandError", "OSError"}

\* run(git_interface, app) from the point where find_breaking_commit has ended
\* with `outc` (returned: res is the summary; raised: res is the error).
RunAfterEngine(outc, res, app) ==
    IF outc = "raised"
    THEN { [status |-> "raised", value |-> <<res>>, popups |-> <<>>] }
    ELSE IF SuccessCommit(res) # None
    THEN { IF o = "written"
           THEN Notify(Message(res, ReportPath(SuccessCommit(res))), app)
           ELSE [status |-> "raised", value |-> <<o>>, popups |-> <<>>] :
             o \in ReportOutcomes }
    ELSE { Notify(Message(res, None), app) }

(***************************************************************************)
(* find_breaking_commit, one subprocess call per step                       *)
(***************************************************************************)

\* The exit code of a command that has not run.
NotRun == 0 - 1

NoVisualize == [returncode |-> NotRun, stdout |-> <<>>]

EngineStart(r) ==
    /\ pc = "idle"
    /\ known_good = None
    /\ known_bad = "HEAD"
    /\ test_command = None
    /\ pytest_on_path = FALSE
    /\ cmds = <<>>
    /\ bisecting = FALSE
    /\ output = <<>>
    /\ bad_commit = None
    /\ outcome = "none"
    /\ result = None
    /\ run_returncode = NotRun
    /\ visualize_result = NoVisualize
    /\ plug = PlugIdle
    /\ repo = r

EngineInit == EngineStart(FreeRepo)

\* find_breaking_commit(known_good=g, known_bad=b, test_command=t) is entered.
Enter(g, b, t, p, frame) ==
    /\ pc = "idle"
    /\ known_good' = g
    /\ known_bad' = b
    /\ test_command' = t
    /\ pytest_on_path' = p
    /\ plug' = frame
    /\ pc' = "ensure"
    /\ cmds' = <<>>
    /\ output' = <<>>
    /\ bad_commit' = None
    /\ outcome' = "none"
    /\ result' = None
    /\ run_returncode' = NotRun
    /\ visualize_result' = NoVisualize
    /\ UNCHANGED <<bisecting, repo>>
    /\ UNCHANGED <<registryVars, runner, utilVars>>

\* A direct call, as DiagnosticEngine's users make it.
Call ==
    \E g \in {None, "", "v1"}, b \in {"HEAD", "main", "nosuchrev"},
       t \in {None, "make test"}, p \in BOOLEAN :
        Enter(g, b, t, p, PlugIdle)

\* CodeBreakAnalyzer's run is called: engine.find_breaking_commit() with the
\* default arguments.
AnalyzerRun ==
    \E p \in BOOLEAN, app \in Apps :
        Enter(None, "HEAD", None, p, [PlugIdle EXCEPT !.active = TRUE, !.app = app])

\* self.git.ensure_repository(): raises GitCommandError outside a repository.
EnsureRepository ==
    /\ pc = "ensure"
    /\ \E ok \in BOOLEAN :
        IF ok
        THEN /\ pc' = "reset"
             /\ UNCHANGED <<outcome, result>>
        ELSE /\ pc' = "done"
             /\ outcome' = "raised"
             /\ result' = "Not a git repository."
    /\ UNCHANGED <<known_good, known_bad, test_command, pytest_on_path, cmds,
                   bisecting, output, bad_commit, run_returncode, visualize_result,
                   plug, repo>>
    /\ UNCHANGED <<registryVars, runner, utilVars>>

\* The unconditional `git bisect reset` before the start (check=False).
InitialReset ==
    /\ pc = "reset"
    /\ cmds' = Append(cmds, RESET)
    /\ \E resp \in Git(repo, RESET) : repo' = resp.repo
    /\ bisecting' = FALSE
    /\ pc' = "start"
    /\ UNCHANGED <<known_good, known_bad, test_command, pytest_on_path, output,
                   bad_commit, outcome, result, run_returncode, visualize_result, plug>>
    /\ UNCHANGED <<registryVars, runner, utilVars>>

\* A setup command run with check=True: exit 0 goes on to pc `next`, a non-zero
\* exit is the CalledProcessError that the except clause turns into GitCommandError.
\* A failing command leaves git's bisection state as it was.
SetupStep(at, cmd, next, startsBisection) ==
    /\ pc = at
    /\ cmds' = Append(cmds, cmd)
    /\ \E resp \in Git(repo, cmd) :
        /\ repo' = resp.repo
        /\ IF resp.returncode = 0
           THEN /\ pc' = next
                /\ bisecting' = (bisecting \/ startsBisection)
                /\ UNCHANGED <<outcome, result>>
           ELSE /\ pc' = "done"
                /\ outcome' = "raised"
                /\ result' = SetupMessage(resp.stderr, resp.stdout)
                /\ UNCHANGED bisecting
    /\ UNCHANGED <<known_good, known_bad, test_command, pytest_on_path, output, bad_commit,
                   run_returncode, visualize_result, plug>>
    /\ UNCHANGED <<registryVars, runner, utilVars>>

BisectStart ==
    SetupStep("start", start_cmd(known_bad, known_good), "bad", TRUE)

\* Mutant of BisectBad: the run step follows the bad mark at once.
BisectBad_skipping_good ==
    SetupStep("bad", <<"git", "bisect", "bad", known_bad>>, "run", FALSE)

BisectBad ==
    SetupStep("bad", <<"git", "bisect", "bad", known_bad>>,
              IF Truthy(known_good) THEN "good" ELSE "run", FALSE)

BisectGood ==
    SetupStep("good", <<"git", "bisect", "good", known_good>>, "run", FALSE)

\* `git bisect run ...`, then the parse of its combined output.
BisectRun ==
    /\ pc = "run"
    /\ cmds' = Append(cmds, run_command(test_command, pytest_on_path))
    /\ \E resp \in Git(repo, run_command(test_command, pytest_on_path)) :
        /\ repo' = resp.repo
        /\ run_returncode' = resp.returncode
        /\ output' = resp.stdout \o resp.stderr
        /\ bad_commit' = _parse_first_bad(resp.stdout \o resp.stderr)
    /\ pc' = IF bad_commit' = None THEN "visualize" ELSE "final"
    /\ UNCHANGED <<known_good, known_bad, test_command, pytest_on_path, bisecting,
                   outcome, result, visualize_result, plug>>
    /\ UNCHANGED <<registryVars, runner, utilVars>>

\* The fallback: bad_commit = self._current_bisect_commit()
BisectVisualize ==
    /\ pc = "visualize"
    /\ cmds' = Append(cmds, VISUALIZE)
    /\ \E resp \in Git(repo, VISUALIZE) :
        /\ repo' = resp.repo
        /\ visualize_result' = [returncode |-> resp.returncode, stdout |-> resp.stdout]
        /\ bad_commit' = _current_bisect_commit(resp.returncode, resp.stdout)
    /\ pc' = "final"
    /\ UNCHANGED <<known_good, known_bad, test_command, pytest_on_path, bisecting,
                   output, outcome, result, run_returncode, plug>>
    /\ UNCHANGED <<registryVars, runner, utilVars>>

\* Mutant of FinalReset: the result is returned without the finally clause.
FinalReset_without_finally ==
    /\ pc = "final"
    /\ outcome' = "returned"
    /\ result' = ResultString(bad_commit)
    /\ pc' = "done"
    /\ UNCHANGED <<known_good, known_bad, test_command, pytest_on_path, output, bad_commit,
                   run_returncode, visualize_result, plug, cmds, bisecting, repo>>
    /\ UNCHANGED <<registryVars, runner, utilVars>>

\* The finally clause, then the return of the result string.
FinalReset ==
    /\ pc = "final"
    /\ cmds' = Append(cmds, RESET)
    /\ \E resp \in Git(repo, RESET) : repo' = resp.repo
    /\ bisecting' = FALSE
    /\ outcome' = "returned"
    /\ result' = ResultString(bad_commit)
    /\ pc' = "done"
    /\ UNCHANGED <<known_good, known_bad, test_command, pytest_on_path, output, bad_commit,
                   run_returncode, visualize_result, plug>>
    /\ UNCHANGED <<registryVars, runner, utilVars>>

\* CodeBreakAnalyzer's run goes on after engine.find_breaking_commit(): the
\* report, the message, the popup, the return.
AnalyzerFinish ==
    /\ pc = "done"
    /\ plug.active
    /\ plug.status = "none"
    /\ \E r \in RunAfterEngine(outcome, result, plug.app) :
        plug' = [plug EXCEPT !.status = r.status, !.value = r.value, !.popups = r.popups]
    /\ UNCHANGED <<pc, known_good, known_bad, test_command, pytest_on_path, cmds,
                   bisecting, output, bad_commit, outcome, result, run_returncode,
                   visualize_result, repo>>
    /\ UNCHANGED <<registryVars, runner, utilVars>>

\* The caller has the result or the error; the engine is ready for the next call.
Finish ==
    /\ pc = "done"
    /\ plug.active => plug.status # "none"
    /\ pc' = "idle"
    /\ UNCHANGED <<known_good, known_bad, test_command, pytest_on_path, cmds,
                   bisecting, output, bad_commit, outcome, result, run_returncode,
                   visualize_result, plug, repo>>
    /\ UNCHANGED <<registryVars, runner, utilVars>>

EngineNext ==
    \/ Call
    \/ AnalyzerRun
    \/ EnsureRepository
    \/ InitialReset
    \/ BisectStart
    \/ BisectBad
    \/ BisectGood
    \/ BisectRun
    \/ BisectVisualize
    \/ FinalReset
    \/ AnalyzerFinish
    \/ Finish

(***************************************************************************)
(* GitCore._run                                                             *)
(***************************************************************************)

\* "".join(command)
RECURSIVE Join(_)
Join(words) == IF words = <<>> THEN "" ELSE Head(words) \o Join(Tail(words))

\* " ".join(args)
RECURSIVE JoinSpaced(_)
JoinSpaced(words) ==
    IF words = <<>> THEN ""
    ELSE IF Len(words) = 1 THEN words[1]
    ELSE words[1] \o " " \o JoinSpaced(Tail(words))

\* str(returncode)
ExitText(returncode) ==
    CASE returncode = 0 -> "0"
      [] returncode = 1 -> "1"
      [] returncode = 128 -> "128"

\* GitRunResult.output
Output(run_result) ==
    IF Strip(run_result.stdout) # "" THEN Strip(run_result.stdout)
    ELSE IF Strip(run_result.stderr) # "" THEN Strip(run_result.stderr)
    ELSE Join(run_result.command)

\* What a call that raises hands back: no GitRunResult.
NoResult == [command |-> <<>>, stdout |-> "", stderr |-> "", returncode |-> 0 - 1]

NoRun == [called |-> FALSE, git_present |-> TRUE, args |-> <<>>, check |-> TRUE,
          returncode |-> 0, stdout |-> "", stderr |-> "",
          attempts |-> 0, raised |-> FALSE, message |-> None, value |-> NoResult]

\* Mutant of _run: a non-zero exit raises whatever `check` says.
_run_always_checking(git_present, args, check, returncode, stdout, stderr) ==
    LET run_result == [command |-> <<"git">> \o args, stdout |-> stdout,
                       stderr |-> stderr, returncode |-> returncode]
    IN  IF ~git_present
        THEN [attempts |-> 1, raised |-> TRUE, value |-> NoResult,
              message |-> "The 'git' executable is required but was not found."]
        ELSE IF returncode # 0
        THEN [attempts |-> 1, raised |-> TRUE, value |-> NoResult,
              message |-> Output(run_result)]
        ELSE [attempts |-> 1, raised |-> FALSE, value |-> run_result, message |-> None]

\* GitCore._run(*args, check=check) when subprocess.run finds git or not and the
\* command ends with the given exit code and texts.
_run(git_present, args, check, returncode, stdout, stderr) ==
    LET run_result == [command |-> <<"git">> \o args, stdout |-> stdout,
                       stderr |-> stderr, returncode |-> returncode]
    IN  IF ~git_present
        THEN [attempts |-> 1, raised |-> TRUE, value |-> NoResult,
              message |-> "The 'git' executable is required but was not found."]
        ELSE IF check /\ returncode # 0
        THEN [attempts |-> 1, raised |-> TRUE, value |-> NoResult,
              message |-> IF Output(run_result) # "" THEN Output(run_result)
                          ELSE "git " \o JoinSpaced(args) \o " failed with exit code "
                                   \o ExitText(returncode)]
        ELSE [attempts |-> 1, raised |-> FALSE, value |-> run_result, message |-> None]

RunArgs == { <<>>, <<"status", "--short">>, <<"checkout", "main">> }
RunExitCodes == {0, 1, 128}
RunStdout == { "", "  \n", "On branch main\n" }
RunStderr == { "", "fatal: not a git repository\n" }

RunnerIdle == runner = NoRun

\* One call of GitCore._run.
GitRun ==
    /\ \E git_present \in BOOLEAN, args \in RunArgs, check \in BOOLEAN,
          returncode \in RunExitCodes, stdout \in RunStdout, stderr \in RunStderr :
        \E r \in {_run(git_present, args, check, returncode, stdout, stderr)} :
            runner' = [called |-> TRUE, git_present |-> git_present, args |-> args,
                       check |-> check, returncode |-> returncode, stdout |-> stdout,
                       stderr |-> stderr, attempts |-> r.attempts, raised |-> r.raised,
                       message |-> r.message, value |-> r.value]
    /\ UNCHANGED <<engineVars, registryVars, utilVars>>

RunnerNext == GitRun

(***************************************************************************)
(* Plug-in registry                                                         *)
(***************************************************************************)

\* Bound: candidate entries in the caller-supplied search path.
MaxEntries == 2

\* The repository handle the registry hands to hooks and to run.
GIT == "git_interface"

\* The class the registry checks against (plugin_manager.py imports it from
\* neogit_tui.plugins) and the class of git_helper/plugins/base.py.
NEOGIT_PLUGIN == "neogit_tui.plugins.Plugin"
BASE_PLUGIN == "git_helper.plugins.base.Plugin"

\* Every file name of the model, in the order sorted(path.iterdir()) gives
\* (code-point order of the names).
AllFiles == << "Beta.py", "__hidden.py", "__init__.py", "a_diff.py", "alpha.py", "alpha_pkg",
               "base.py", "broken_load.py", "code_break_analyzer.py",
               "diffsummarizer_bot.py", "ml_suggester.py", "no_register.py",
               "noncallable.py", "notes.txt", "notplugin.py", "raises0.py",
               "raises1.py", "typeerr0.py", "upper.py" >>

\* entry.name.startswith("__")
StartsWithDunder(file) == file \in {"__hidden.py", "__init__.py"}

NoHook == [register |-> "missing", params |-> "none", body |-> "returns",
           cls |-> "NoneType", name |-> "", run |-> "returns"]

Hook(params, body, cls, name, run) ==
    [register |-> "callable", params |-> params, body |-> body,
     cls |-> cls, name |-> name, run |-> run]

Entry(kind, load, hook) == [kind |-> kind, load |-> load] @@ hook

\* What each candidate entry is: its kind on disk, whether executing it
\* succeeds, its `register` attribute (missing, not callable, or a function with
\* zero, one required or one optional parameter), what the hook's body does, and
\* the class, name and run behaviour of the value it returns.
Catalog ==
    [ file \in { AllFiles[i] : i \in DOMAIN AllFiles } |->
      CASE file = "__init__.py" -> Entry("file_py", "ok", NoHook)
        [] file = "base.py" -> Entry("file_py", "ok", NoHook)
        [] file = "code_break_analyzer.py" ->
              Entry("file_py", "ok",
                    Hook("optional", "returns", BASE_PLUGIN, "CodeBreakAnalyzer", "returns"))
        [] file = "diffsummarizer_bot.py" ->
              Entry("file_py", "ok",
                    Hook("optional", "returns", NEOGIT_PLUGIN, "DiffSummarizer Bot", "returns"))
        [] file = "ml_suggester.py" ->
              Entry("file_py", "ok",
                    Hook("one", "returns", NEOGIT_PLUGIN, "ML-ish Commit Oracle", "returns"))
        [] file = "Beta.py" ->
              Entry("file_py", "ok", Hook("none", "returns", NEOGIT_PLUGIN, "Beta", "raises"))
        [] file = "a_diff.py" ->
              Entry("file_py", "ok",
                    Hook("none", "returns", NEOGIT_PLUGIN, "DiffSummarizer Bot", "returns"))
        [] file = "__hidden.py" ->
              Entry("file_py", "ok", Hook("none", "returns", NEOGIT_PLUGIN, "alpha", "returns"))
        [] file = "alpha.py" ->
              Entry("file_py", "ok", Hook("none", "returns", NEOGIT_PLUGIN, "alpha", "returns"))
        [] file = "alpha_pkg" ->
              Entry("package", "ok", Hook("one", "returns", NEOGIT_PLUGIN, "alpha", "returns"))
        [] file = "broken_load.py" ->
              Entry("file_py", "fails", NoHook)
        [] file = "no_register.py" -> Entry("file_py", "ok", NoHook)
        [] file = "noncallable.py" ->
              Entry("file_py", "ok", [NoHook EXCEPT !.register = "noncallable"])
        [] file = "notes.txt" ->
              Entry("other", "ok", Hook("none", "returns", NEOGIT_PLUGIN, "alpha", "returns"))
        [] file = "notplugin.py" ->
              Entry("file_py", "ok", Hook("none", "returns", "dict", "alpha", "returns"))
        [] file = "raises0.py" ->
              Entry("file_py", "ok", Hook("none", "raises", NEOGIT_PLUGIN, "alpha", "returns"))
        [] file = "raises1.py" ->
              Entry("file_py", "ok", Hook("one", "raises", NEOGIT_PLUGIN, "alpha", "returns"))
        [] file = "typeerr0.py" ->
              Entry("file_py", "ok",
                    Hook("none", "raises_type_error", NEOGIT_PLUGIN, "alpha", "returns"))
        [] file = "upper.py" ->
              Entry("file_py", "ok", Hook("none", "returns", NEOGIT_PLUGIN, "Alpha", "returns")) ]

BuiltinEntries == {"__init__.py", "base.py", "code_break_analyzer.py", "diffsummarizer_bot.py"}
TuiEntries == {"__init__.py", "ml_suggester.py"}
DynCatalog == {"Beta.py", "__hidden.py", "a_diff.py", "alpha.py", "alpha_pkg", "broken_load.py",
               "no_register.py", "noncallable.py", "notes.txt", "notplugin.py",
               "raises0.py", "raises1.py", "typeerr0.py", "upper.py"}

BUILTIN_PREFIX == "git_helper.plugins"
TUI_PREFIX == "neogit_tui.plugins"
DYNAMIC_PREFIX == "git_helper.dynamic_plugins.0"

\* sorted(path.iterdir()) of a directory holding the entries `files`.
RECURSIVE SortedEntries(_, _)
SortedEntries(files, i) ==
    IF i > Len(AllFiles) THEN <<>>
    ELSE (IF AllFiles[i] \in files THEN <<AllFiles[i]>> ELSE <<>>)
         \o SortedEntries(files, i + 1)

Listing(prefix, files) ==
    LET s == SortedEntries(files, 1)
    IN  [i \in DOMAIN s |-> [prefix |-> prefix, file |-> s[i]]]

\* self.search_paths, flattened to the candidates in iteration order.
search_paths(dynFiles) ==
    Listing(BUILTIN_PREFIX, BuiltinEntries)
        \o Listing(TUI_PREFIX, TuiEntries)
        \o Listing(DYNAMIC_PREFIX, dynFiles)

\* _import_plugin: TRUE when a module object comes back.
_import_plugin(file) ==
    /\ Catalog[file].kind \in {"package", "file_py"}
    /\ Catalog[file].load = "ok"

\* The Plugin a hook returns; origin tells the run functions of two modules apart.
PluginOf(cand) ==
    [cls |-> Catalog[cand.file].cls, name |-> Catalog[cand.file].name, origin |-> cand]

\* Mutant of CallRegister: a TypeError of register() is handled like any other
\* exception, without the second call.
CallRegister_without_retry(cand) ==
    LET m == Catalog[cand.file]
    IN  IF m.params = "one" THEN [kind |-> "skip", exc |-> None, runs |-> 0]
        ELSE IF m.body = "returns" THEN [kind |-> "value", exc |-> None, runs |-> 1]
        ELSE [kind |-> "skip", exc |-> None, runs |-> 1]

\* Lines 62-67 of discover: register(), on TypeError register(self.git), on any
\* other Exception skip. `runs` counts the executions of the hook's body.
CallRegister(cand) ==
    LET m == Catalog[cand.file]
        body(n) == CASE m.body = "returns" -> [kind |-> "value", exc |-> None, runs |-> n]
                     [] m.body = "raises" -> [kind |-> "raise", exc |-> "RuntimeError", runs |-> n]
                     [] OTHER -> [kind |-> "raise", exc |-> "TypeError", runs |-> n]
        first == IF m.params = "one"
                 THEN [kind |-> "raise", exc |-> "TypeError", runs |-> 0]
                 ELSE body(1)
        second == IF m.params = "none"
                  THEN [kind |-> "raise", exc |-> "TypeError", runs |-> first.runs]
                  ELSE body(first.runs + 1)
    IN  IF first.kind = "value" THEN first
        ELSE IF first.exc = "TypeError" THEN second
        ELSE [kind |-> "skip", exc |-> None, runs |-> first.runs]

\* state.plugin.name.lower()
Lower(name) ==
    CASE name = "Alpha" -> "alpha"
      [] name = "Beta" -> "beta"
      [] name = "CodeBreakAnalyzer" -> "codebreakanalyzer"
      [] name = "DiffSummarizer Bot" -> "diffsummarizer bot"
      [] name = "ML-ish Commit Oracle" -> "ml-ish commit oracle"
      [] OTHER -> name

\* Python's str order on the names of the model (code-point order).
StrOrder == << "Alpha", "Beta", "CodeBreakAnalyzer", "DiffSummarizer Bot",
               "ML-ish Commit Oracle", "alpha", "beta", "codebreakanalyzer",
               "diffsummarizer bot", "ghost", "ml-ish commit oracle" >>

StrRank(s) == CHOOSE i \in DOMAIN StrOrder : StrOrder[i] = s

StrLess(a, b) == StrRank(a) < StrRank(b)

SortKey(state) == Lower(state.plugin.name)

\* list.sort(key=...) is stable: an element goes after every element whose key
\* is not greater than its own.
InsertByKey(sorted, state) ==
    LET at == Cardinality({ i \in DOMAIN sorted :
                              ~StrLess(SortKey(state), SortKey(sorted[i])) })
    IN  SubSeq(sorted, 1, at) \o <<state>> \o SubSeq(sorted, at + 1, Len(sorted))

RECURSIVE SortPrefix(_, _)
SortPrefix(states, n) ==
    IF n = 0 THEN <<>>
    ELSE LET sorted == SortPrefix(states, n - 1)
         IN  InsertByKey(sorted, states[n])

\* discovered.sort(key=lambda state: state.plugin.name.lower())
SortByName(states) == SortPrefix(states, Len(states))

\* The loop of discover over the candidates, from candidate i on: the entries
\* appended so far, or the exception that left the loop.
\* `log` has one entry for each candidate handed to _import_plugin: the
\* candidate and how often the body of its register hook ran.
RECURSIVE Scan(_, _, _, _, _)
Scan(cands, i, disabled, discovered, log) ==
    IF i > Len(cands)
    THEN [raised |-> FALSE, exc |-> None, discovered |-> discovered, log |-> log]
    ELSE LET cand == cands[i]
             m == Catalog[cand.file]
             r == CallRegister(cand)
             plugin == PluginOf(cand)
             unhooked == Append(log, [cand |-> cand, runs |-> 0])
             hooked == Append(log, [cand |-> cand, runs |-> r.runs])
         IN  IF StartsWithDunder(cand.file)
             THEN Scan(cands, i + 1, disabled, discovered, log)
             ELSE IF ~_import_plugin(cand.file)
             THEN Scan(cands, i + 1, disabled, discovered, unhooked)
             ELSE IF m.register # "callable"
             THEN Scan(cands, i + 1, disabled, discovered, unhooked)
             ELSE IF r.kind = "raise"
             THEN [raised |-> TRUE, exc |-> r.exc, discovered |-> discovered, log |-> hooked]
             ELSE IF r.kind = "skip" THEN Scan(cands, i + 1, disabled, discovered, hooked)
             ELSE IF plugin.cls # NEOGIT_PLUGIN
             THEN Scan(cands, i + 1, disabled, discovered, hooked)
             ELSE Scan(cands, i + 1, disabled,
                       Append(discovered,
                              [plugin |-> plugin, enabled |-> plugin.name \notin disabled]),
                       hooked)

ToSet(seq) == { seq[i] : i \in DOMAIN seq }

\* Mutant of Rescan: a disabled name disables every plug-in whose name differs
\* from it in letter case only.
Rescan_ignoring_case(cache, dynFiles, disabled_plugins) ==
    LET folded == { StrOrder[i] : i \in { j \in DOMAIN StrOrder :
                        \E d \in ToSet(disabled_plugins) :
                            Lower(StrOrder[j]) = Lower(d) } }
        r == Scan(search_paths(dynFiles), 1, folded, <<>>, <<>>)
    IN  IF r.raised
        THEN [raised |-> TRUE, exc |-> r.exc, snapshot |-> <<>>, loaded |-> cache,
              read |-> TRUE, log |-> r.log]
        ELSE [raised |-> FALSE, exc |-> None,
              snapshot |-> SortByName(r.discovered),
              loaded |-> SortByName(r.discovered),
              read |-> TRUE, log |-> r.log]

\* The body of discover below its cache check: settings.disabled_plugins() is
\* read, every candidate is scanned, the sorted list is stored and returned.
Rescan(cache, dynFiles, disabled_plugins) ==
    LET r == Scan(search_paths(dynFiles), 1, ToSet(disabled_plugins), <<>>, <<>>)
    IN  IF r.raised
        THEN [raised |-> TRUE, exc |-> r.exc, snapshot |-> <<>>, loaded |-> cache,
              read |-> TRUE, log |-> r.log]
        ELSE [raised |-> FALSE, exc |-> None,
              snapshot |-> SortByName(r.discovered),
              loaded |-> SortByName(r.discovered),
              read |-> TRUE, log |-> r.log]

\* Mutant of discover: the cached snapshot is never used.
discover_without_cache(cache, force, dynFiles, disabled_plugins) ==
    Rescan(cache, dynFiles, disabled_plugins)

\* PluginManager.discover(force=...): what it returns or raises, self._loaded
\* afterwards, whether the disabled-set was read and which candidates were loaded.
discover(cache, force, dynFiles, disabled_plugins) ==
    IF cache # None /\ ~force
    THEN [raised |-> FALSE, exc |-> None, snapshot |-> cache, loaded |-> cache,
          read |-> FALSE, log |-> <<>>]
    ELSE Rescan(cache, dynFiles, disabled_plugins)

\* sorted(set_of_names)
RECURSIVE SortedNames(_, _)
SortedNames(names, i) ==
    IF i > Len(StrOrder) THEN <<>>
    ELSE (IF StrOrder[i] \in names THEN <<StrOrder[i]>> ELSE <<>>)
         \o SortedNames(names, i + 1)

\* DEFAULT_SETTINGS["disabled_plugins"]
DEFAULT_SETTINGS == <<>>

\* Mutant of save: nothing is written.
save_skipped(file, disabled_plugins) == file

\* SettingsManager.save: the file afterwards. json.loads gives back the list
\* json.dumps wrote: a JSON array of strings keeps its items and their order.
save(file, disabled_plugins) ==
    [kind |-> "json", has_key |-> TRUE, disabled_plugins |-> disabled_plugins]

\* SettingsManager.reload on a fresh instance: data["disabled_plugins"] and the
\* file afterwards.
reload(file) ==
    CASE file.kind = "missing" ->
            [data |-> DEFAULT_SETTINGS, store |-> save(file, DEFAULT_SETTINGS)]
      [] file.kind = "corrupt" ->
            [data |-> DEFAULT_SETTINGS, store |-> save(file, DEFAULT_SETTINGS)]
      [] OTHER ->
            [data |-> IF file.has_key THEN file.disabled_plugins ELSE DEFAULT_SETTINGS,
             store |-> file]

\* The file SettingsManager leaves behind when it is constructed on a path
\* where no file exists.
FirstFile ==
    reload([kind |-> "missing", has_key |-> FALSE, disabled_plugins |-> <<>>]).store

\* Mutant of reset_loaded: the cached snapshot is kept.
reset_loaded_skipped(cache) == cache

\* self._loaded = None in enable and disable.
reset_loaded(cache) == None

\* Mutant of disable_plugin: the new set is computed but never stored.
disable_plugin_not_stored(disabled_plugins, name) == disabled_plugins

\* SettingsManager.disable_plugin: data["disabled_plugins"] afterwards.
disable_plugin(disabled_plugins, name) ==
    SortedNames(ToSet(disabled_plugins) \cup {name}, 1)

\* Mutant of enable_plugin: the name is never taken out of the list.
enable_plugin_keeping_name(disabled_plugins, name) == disabled_plugins

\* SettingsManager.enable_plugin: data["disabled_plugins"] afterwards.
enable_plugin(disabled_plugins, name) ==
    IF name \in ToSet(disabled_plugins)
    THEN SortedNames(ToSet(disabled_plugins) \ {name}, 1)
    ELSE disabled_plugins

\* state.plugin.run(self.git, app_context) of the plug-in a module registered.
PluginRun(plugin, git, app_context) ==
    IF Catalog[plugin.origin.file].run = "raises"
    THEN [raised |-> TRUE, exc |-> "PluginFailure", value |-> None]
    ELSE [raised |-> FALSE, exc |-> None,
          value |-> <<"result", plugin.origin.prefix, plugin.origin.file, git, app_context>>]

\* The loop of run_plugin over the snapshot, from entry i on.
RECURSIVE RunFirstMatch(_, _, _, _)
RunFirstMatch(snapshot, i, name, app_context) ==
    IF i > Len(snapshot)
    THEN [raised |-> TRUE, exc |-> "ValueError", value |-> None, calls |-> <<>>]
    ELSE IF snapshot[i].plugin.name = name /\ snapshot[i].enabled
         THEN PluginRun(snapshot[i].plugin, GIT, app_context)
              @@ [calls |-> << [plugin |-> snapshot[i].plugin, git |-> GIT,
                                 ctx |-> app_context] >>]
         ELSE RunFirstMatch(snapshot, i + 1, name, app_context)

\* Mutant of run_plugin: the entry is matched by name alone, enabled or not.
run_plugin_ignoring_enabled(snapshot, name, app_context) ==
    LET hits == { i \in DOMAIN snapshot : snapshot[i].plugin.name = name }
        first == CHOOSE i \in hits : \A j \in hits : i <= j
    IN  IF hits = {}
        THEN [raised |-> TRUE, exc |-> "ValueError", value |-> None, calls |-> <<>>]
        ELSE PluginRun(snapshot[first].plugin, GIT, app_context)
             @@ [calls |-> << [plugin |-> snapshot[first].plugin, git |-> GIT,
                                ctx |-> app_context] >>]

\* PluginManager.run_plugin on the snapshot discover() gave it.
run_plugin(snapshot, name, app_context) == RunFirstMatch(snapshot, 1, name, app_context)

\* Plug-in names the callers enable and disable, names they run, contexts they pass.
ToggleNames == {"alpha", "Alpha", "DiffSummarizer Bot"}
RunNames == {"alpha", "Beta", "CodeBreakAnalyzer", "DiffSummarizer Bot", "ghost"}
Contexts == {None, "app"}

NoCall == [op |-> "none", name |-> None, ctx |-> None, force |-> FALSE,
           raised |-> FALSE, exc |-> None, value |-> None,
           snapshot |-> <<>>, plugins |-> <<>>, calls |-> <<>>,
           read |-> FALSE, log |-> <<>>]

\* Stages 1-4 follow disable / discover / enable / discover; stage 5 is a fresh
\* PluginManager whose predecessor had `expect` disabled, stage 6 its first
\* discover.
MonIdle == [stage |-> 0, name |-> None, before |-> <<>>, snapA |-> <<>>, snapB |-> <<>>,
            expect |-> <<>>]

RegistryInit ==
    /\ dyn \in { files \in SUBSET DynCatalog : Cardinality(files) <= MaxEntries }
    /\ data = reload(FirstFile).data
    /\ store = FirstFile
    /\ loaded = None
    /\ last = NoCall
    /\ mon = MonIdle

RegistryIdle ==
    /\ dyn = {}
    /\ data = reload(FirstFile).data
    /\ store = FirstFile
    /\ loaded = None
    /\ last = NoCall
    /\ mon = MonIdle

\* PluginManager.discover(force=force)
Discover ==
    \E force \in BOOLEAN :
        \E r \in {discover(loaded, force, dyn, data)} :
            /\ loaded' = r.loaded
            /\ last' = [NoCall EXCEPT !.op = "discover", !.force = force,
                                      !.raised = r.raised, !.exc = r.exc,
                                      !.snapshot = r.snapshot,
                                      !.read = r.read, !.log = r.log]
            /\ mon' = IF force /\ ~r.raised /\ mon.stage = 1
                      THEN [mon EXCEPT !.stage = 2, !.snapA = r.snapshot]
                      ELSE IF force /\ ~r.raised /\ mon.stage = 3
                      THEN [mon EXCEPT !.stage = 4, !.snapB = r.snapshot]
                      ELSE IF ~r.raised /\ mon.stage = 5
                      THEN [mon EXCEPT !.stage = 6, !.snapA = r.snapshot]
                      ELSE MonIdle
            /\ UNCHANGED <<dyn, data, store>>
            /\ UNCHANGED <<engineVars, runner, utilVars>>

\* PluginManager.enable(plugin_name)
Enable ==
    \E name \in ToggleNames :
        /\ data' = enable_plugin(data, name)
        /\ store' = IF name \in ToSet(data) THEN save(store, data') ELSE store
        /\ loaded' = reset_loaded(loaded)
        /\ last' = [NoCall EXCEPT !.op = "enable", !.name = name]
        /\ mon' = IF mon.stage = 2 /\ mon.name = name
                  THEN [mon EXCEPT !.stage = 3]
                  ELSE MonIdle
        /\ UNCHANGED dyn
        /\ UNCHANGED <<engineVars, runner, utilVars>>

\* PluginManager.disable(plugin_name)
Disable ==
    \E name \in ToggleNames :
        /\ data' = disable_plugin(data, name)
        /\ store' = save(store, data')
        /\ loaded' = reset_loaded(loaded)
        /\ last' = [NoCall EXCEPT !.op = "disable", !.name = name]
        /\ mon' = IF loaded # None
                  THEN [MonIdle EXCEPT !.stage = 1, !.name = name, !.before = loaded]
                  ELSE MonIdle
        /\ UNCHANGED dyn
        /\ UNCHANGED <<engineVars, runner, utilVars>>

\* [state.plugin for state in snapshot if state.enabled]
RECURSIVE EnabledPlugins(_)
EnabledPlugins(snapshot) ==
    IF snapshot = <<>> THEN <<>>
    ELSE (IF Head(snapshot).enabled THEN <<Head(snapshot).plugin>> ELSE <<>>)
         \o EnabledPlugins(Tail(snapshot))

\* PluginManager.get_enabled_plugins()
GetEnabledPlugins ==
    \E r \in {discover(loaded, FALSE, dyn, data)} :
        /\ loaded' = r.loaded
        /\ last' = [NoCall EXCEPT !.op = "get_enabled_plugins",
                                  !.raised = r.raised, !.exc = r.exc,
                                  !.snapshot = r.snapshot,
                                  !.read = r.read, !.log = r.log,
                                  !.plugins = IF r.raised THEN <<>>
                                              ELSE EnabledPlugins(r.snapshot)]
        /\ mon' = MonIdle
        /\ UNCHANGED <<dyn, data, store>>
        /\ UNCHANGED <<engineVars, runner, utilVars>>
\* Mutant of RunPlugin: the call leaves no cached snapshot behind.
RunPlugin_dropping_cache ==
    \E r \in {discover(loaded, FALSE, dyn, data)} :
        \E name \in RunNames, app_context \in Contexts :
          \E x \in {run_plugin(r.snapshot, name, app_context)} :
            /\ loaded' = None
            /\ last' = IF r.raised
                       THEN [NoCall EXCEPT !.op = "discover_failed", !.name = name,
                                           !.ctx = app_context,
                                           !.raised = TRUE, !.exc = r.exc,
                                           !.read = r.read, !.log = r.log]
                       ELSE [NoCall EXCEPT !.op = "run_plugin", !.name = name,
                                           !.ctx = app_context,
                                           !.raised = x.raised, !.exc = x.exc,
                                           !.value = x.value, !.calls = x.calls,
                                           !.snapshot = r.snapshot,
                                           !.read = r.read, !.log = r.log]
            /\ mon' = MonIdle
            /\ UNCHANGED <<dyn, data, store>>
            /\ UNCHANGED <<engineVars, runner, utilVars>>

\* PluginManager.run_plugin(name, app_context)
RunPlugin ==
    \E r \in {discover(loaded, FALSE, dyn, data)} :
        \E name \in RunNames, app_context \in Contexts :
          \E x \in {run_plugin(r.snapshot, name, app_context)} :
            /\ loaded' = r.loaded
            /\ last' = IF r.raised
                       THEN [NoCall EXCEPT !.op = "discover_failed", !.name = name,
                                           !.ctx = app_context,
                                           !.raised = TRUE, !.exc = r.exc,
                                           !.read = r.read, !.log = r.log]
                       ELSE [NoCall EXCEPT !.op = "run_plugin", !.name = name,
                                           !.ctx = app_context,
                                           !.raised = x.raised, !.exc = x.exc,
                                           !.value = x.value, !.calls = x.calls,
                                           !.snapshot = r.snapshot,
                                           !.read = r.read, !.log = r.log]
            /\ mon' = MonIdle
            /\ UNCHANGED <<dyn, data, store>>
            /\ UNCHANGED <<engineVars, runner, utilVars>>

\* A later session: a fresh SettingsManager reads the same settings file and a
\* fresh PluginManager is built on it.
NewPluginManager ==
    \E r \in {reload(store)} :
        /\ data' = r.data
        /\ store' = r.store
        /\ loaded' = None
        /\ last' = [NoCall EXCEPT !.op = "new"]
        /\ mon' = [MonIdle EXCEPT !.stage = 5, !.expect = data]
        /\ UNCHANGED dyn
        /\ UNCHANGED <<engineVars, runner, utilVars>>

RegistryNext ==
    \/ NewPluginManager
    \/ Discover
    \/ Enable
    \/ Disable
    \/ GetEnabledPlugins
    \/ RunPlugin

(***************************************************************************)
(* TokenManager over the keyring                                            *)
(***************************************************************************)

\* Bound: save and delete calls made in one behaviour.
MaxCalls == 3

SERVICE_NAME == "githelper"

Usernames == {"default", "tester"}

\* Token arguments of save; the empty one is rejected.
Tokens == {"", "ghp_secret", "ghp_other"}

\* f"{self.username}:gh-pat"
_credential_id(username) == username \o ":gh-pat"

Credentials == { <<SERVICE_NAME, _credential_id(u)>> : u \in Usernames }

\* _FallbackKeyring._storage before anything is stored: dict.get answers None.
EmptyStorage == [c \in Credentials |-> None]

set_password(storage, service, user, password) ==
    [storage EXCEPT ![<<service, user>>] = password]

get_password(storage, service, user) == storage[<<service, user>>]

\* Mutant of delete_password: the entry is left in place.
delete_password_kept(storage, service, user) == storage

\* cls._storage.pop((service, user), None)
delete_password(storage, service, user) ==
    [storage EXCEPT ![<<service, user>>] = None]

\* An Optional[Sequence[str]] argument.
NoneSeq == [is_none |-> TRUE, items |-> <<>>]
Some(items) == [is_none |-> FALSE, items |-> items]

\* The scopes argument of require.
ScopeArgs == { NoneSeq, Some(<<>>), Some(<<"repo">>), Some(<<"repo", "admin:org">>) }

\* The scope_provider argument of require: None, or a callable that returns a
\* sequence of scopes or raises.
NoProvider == [kind |-> "None", scopes |-> <<>>]
Returns(scopes) == [kind |-> "returns", scopes |-> scopes]
ScopeProviders == { NoProvider, Returns(<<"repo", "workflow">>),
                    Returns(<<"admin:org", "repo">>),
                    [kind |-> "raises", scopes |-> <<>>] }

\* [scope for scope in scopes if scope not in available]
Missing(scopes, available) ==
    SelectSeq(scopes, LAMBDA scope : scope \notin available)

NoTokenCall == [op |-> "none", username |-> None, token |-> None, scopes |-> NoneSeq,
                provider |-> NoProvider, raised |-> FALSE, exc |-> None, value |-> None,
                missing |-> <<>>]

\* TokenManager.save: the storage afterwards and the outcome of the call.
token_save(storage, username, token) ==
    IF token = ""
    THEN [storage |-> storage, raised |-> TRUE, exc |-> "TokenManagerError"]
    ELSE [storage |-> set_password(storage, SERVICE_NAME, _credential_id(username), token),
          raised |-> FALSE, exc |-> None]

\* TokenManager.load
token_load(storage, username) ==
    get_password(storage, SERVICE_NAME, _credential_id(username))

\* TokenManager.delete: the storage afterwards.
token_delete(storage, username) ==
    delete_password(storage, SERVICE_NAME, _credential_id(username))

\* TokenManager.require
require(storage, username, scopes, scope_provider) ==
    LET token == token_load(storage, username)
        asked == (~scopes.is_none) /\ scopes.items # <<>>
        available == IF scope_provider.kind = "returns"
                     THEN { scope_provider.scopes[i] : i \in DOMAIN scope_provider.scopes }
                     ELSE {}
        missing == Missing(scopes.items, available)
    IN  IF ~Truthy(token)
        THEN [raised |-> TRUE, exc |-> "TokenManagerError", value |-> None, missing |-> <<>>]
        ELSE IF asked /\ scope_provider.kind = "raises"
        THEN [raised |-> TRUE, exc |-> "ProviderError", value |-> None, missing |-> <<>>]
        ELSE IF asked /\ missing # <<>>
        THEN [raised |-> TRUE, exc |-> "TokenManagerError", value |-> None,
              missing |-> missing]
        ELSE [raised |-> FALSE, exc |-> None, value |-> token, missing |-> <<>>]

TokenIdle ==
    /\ keyring = EmptyStorage
    /\ token_log = <<>>
    /\ token_call = NoTokenCall

TokenSave ==
    /\ Len(token_log) < MaxCalls
    /\ \E username \in Usernames, token \in Tokens :
        \E r \in {token_save(keyring, username, token)} :
            /\ keyring' = r.storage
            /\ token_log' = Append(token_log, [op |-> "save", username |-> username,
                                               token |-> token, raised |-> r.raised])
            /\ token_call' = [NoTokenCall EXCEPT !.op = "save", !.username = username,
                                                  !.token = token, !.raised = r.raised,
                                                  !.exc = r.exc]
    /\ UNCHANGED <<configVars, settingsVars>>
    /\ UNCHANGED <<engineVars, registryVars, runner>>

TokenDelete ==
    /\ Len(token_log) < MaxCalls
    /\ \E username \in Usernames :
        /\ keyring' = token_delete(keyring, username)
        /\ token_log' = Append(token_log, [op |-> "delete", username |-> username,
                                           token |-> None, raised |-> FALSE])
        /\ token_call' = [NoTokenCall EXCEPT !.op = "delete", !.username = username]
    /\ UNCHANGED <<configVars, settingsVars>>
    /\ UNCHANGED <<engineVars, registryVars, runner>>

TokenLoad ==
    /\ \E username \in Usernames :
        token_call' = [NoTokenCall EXCEPT !.op = "load", !.username = username,
                                          !.value = token_load(keyring, username)]
    /\ UNCHANGED <<keyring, token_log>>
    /\ UNCHANGED <<configVars, settingsVars>>
    /\ UNCHANGED <<engineVars, registryVars, runner>>

TokenRequire ==
    /\ \E username \in Usernames, scopes \in ScopeArgs, scope_provider \in ScopeProviders :
        \E r \in {require(keyring, username, scopes, scope_provider)} :
            token_call' = [NoTokenCall EXCEPT !.op = "require", !.username = username,
                                              !.scopes = scopes, !.provider = scope_provider,
                                              !.raised = r.raised, !.exc = r.exc,
                                              !.value = r.value, !.missing = r.missing]
    /\ UNCHANGED <<keyring, token_log>>
    /\ UNCHANGED <<configVars, settingsVars>>
    /\ UNCHANGED <<engineVars, registryVars, runner>>

TokenNext ==
    \/ TokenSave
    \/ TokenDelete
    \/ TokenLoad
    \/ TokenRequire

(***************************************************************************)
(* ConfigManager over config.toml                                           *)
(***************************************************************************)

\* Bound: set calls made in one behaviour.
MaxSets == 1

\* A Python str is the sequence of its characters.
Str(chars) == [type |-> "str", v |-> chars]
PyTrue == [type |-> "bool", v |-> <<"True">>]
PyFalse == [type |-> "bool", v |-> <<"False">>]
EmptyList == [type |-> "list", v |-> <<>>]
\* The default of ConfigManager.get.
NoValue == [type |-> "None", v |-> <<>>]

QUOTE == "\""
BACKSLASH == "\\"
TAB == "\t"

EMPTY == Str(<<>>)
SYSTEM == Str(<<"s", "y", "s", "t", "e", "m">>)
NANO == Str(<<"n", "a", "n", "o">>)
OCTO_ORG == Str(<<"o", "c", "t", "o", "-", "o", "r", "g">>)
\* A Windows path, C:\temp, and a quoted word, say "hi".
WIN_PATH == Str(<<"C", ":", BACKSLASH, "t", "e", "m", "p">>)
QUOTED == Str(<<"s", "a", "y", " ", QUOTE, "h", "i", QUOTE>>)

\* A dict is a function on its keys.
EmptyDict == [k \in {} |-> NoValue]
Put(dict, key, value) == (key :> value) @@ dict

\* DEFAULT_CONFIG as the module defines it ($EDITOR unset).
DefaultConfig ==
    Put(Put(Put(EmptyDict,
        "github", Put(Put(EmptyDict, "default_org", EMPTY), "preferred_repos", EmptyList)),
        "ui", Put(Put(EmptyDict, "theme", SYSTEM), "use_gui", PyFalse)),
        "editor", Put(EmptyDict, "command", NANO))

\* What the callers set.
ConfigManagers == {"first", "second"}
Paths == {"a/config.toml", "b/config.toml"}
SetKeys == { <<"github", "default_org">>, <<"ui", "theme">>, <<"extra", "flag">> }
SetValues == { OCTO_ORG, WIN_PATH, QUOTED, PyTrue }

\* A section of self.data is a reference: to the dict DEFAULT_CONFIG holds
\* under that name (dict.copy() is shallow), or to a dict of the instance's own.
Shared == [ref |-> "DEFAULT_CONFIG", dict |-> EmptyDict]
Own(dict) == [ref |-> "own", dict |-> dict]

\* DEFAULT_CONFIG.copy()
copy(defaults) == [section \in DOMAIN defaults |-> Shared]

\* The dict a section of self.data refers to.
Deref(defaults, entry, section) ==
    IF entry.ref = "DEFAULT_CONFIG" THEN defaults[section] ELSE entry.dict

\* self.data with every reference followed.
View(defaults, self_data) ==
    [section \in DOMAIN self_data |-> Deref(defaults, self_data[section], section)]

\* ConfigManager.get
get(defaults, self_data, section, key) ==
    IF section \in DOMAIN self_data
       /\ key \in DOMAIN Deref(defaults, self_data[section], section)
    THEN Deref(defaults, self_data[section], section)[key]
    ELSE NoValue

\* _format_value: the text written after "key = ".
_format_value(value) ==
    CASE value.type = "bool" -> IF value = PyTrue THEN <<"t", "r", "u", "e">>
                                ELSE <<"f", "a", "l", "s", "e">>
      [] value.type = "list" -> <<"[", "]">>
      [] OTHER -> <<QUOTE>> \o value.v \o <<QUOTE>>

\* tomli_w writes a basic string with its backslashes, quotes and control
\* characters escaped.
RECURSIVE Escape(_)
Escape(chars) ==
    IF chars = <<>> THEN <<>>
    ELSE (CASE Head(chars) = BACKSLASH -> <<BACKSLASH, BACKSLASH>>
            [] Head(chars) = QUOTE -> <<BACKSLASH, QUOTE>>
            [] Head(chars) = TAB -> <<BACKSLASH, "t">>
            [] OTHER -> <<Head(chars)>>) \o Escape(Tail(chars))

tomli_w_format(value) ==
    IF value.type = "str" THEN <<QUOTE>> \o Escape(value.v) \o <<QUOTE>>
    ELSE _format_value(value)

\* _dump_toml, or tomli_w.dump when the module is importable: the text of each
\* value under its [section] and key.
Dump(view, with_tomli_w) ==
    [section \in DOMAIN view |->
        [key \in DOMAIN view[section] |->
            IF with_tomli_w THEN tomli_w_format(view[section][key])
            ELSE _format_value(view[section][key])]]

ParseError == [ok |-> FALSE, value |-> NoValue]
Parsed(value) == [ok |-> TRUE, value |-> value]

\* tomllib on a basic string, from the character after the opening quote: an
\* escape sequence stands for the character it names, the first bare quote
\* closes the string and nothing may follow it.
RECURSIVE ParseBasicString(_, _, _)
ParseBasicString(text, i, acc) ==
    IF i > Len(text) THEN ParseError
    ELSE IF text[i] = QUOTE
    THEN (IF i = Len(text) THEN Parsed(Str(acc)) ELSE ParseError)
    ELSE IF text[i] = BACKSLASH
    THEN (IF i + 1 > Len(text) THEN ParseError
          ELSE CASE text[i + 1] = "t" -> ParseBasicString(text, i + 2, Append(acc, TAB))
                 [] text[i + 1] = BACKSLASH ->
                        ParseBasicString(text, i + 2, Append(acc, BACKSLASH))
                 [] text[i + 1] = QUOTE ->
                        ParseBasicString(text, i + 2, Append(acc, QUOTE))
                 [] OTHER -> ParseError)
    ELSE IF text[i] = TAB THEN ParseBasicString(text, i + 1, Append(acc, TAB))
    ELSE ParseBasicString(text, i + 1, Append(acc, text[i]))

\* tomllib on the text of one value.
ParseValue(text) ==
    CASE text = <<"t", "r", "u", "e">> -> Parsed(PyTrue)
      [] text = <<"f", "a", "l", "s", "e">> -> Parsed(PyFalse)
      [] text = <<"[", "]">> -> Parsed(EmptyList)
      [] text # <<>> /\ Head(text) = QUOTE -> ParseBasicString(text, 2, <<>>)
      [] OTHER -> ParseError

\* tomllib.load: the dict of the file, or TOMLDecodeError.
Load(text) ==
    IF \A section \in DOMAIN text : \A key \in DOMAIN text[section] :
           ParseValue(text[section][key]).ok
    THEN [ok |-> TRUE,
          loaded |-> [section \in DOMAIN text |->
                        [key \in DOMAIN text[section] |->
                            ParseValue(text[section][key]).value]]]
    ELSE [ok |-> FALSE, loaded |-> EmptyDict]

NoFile == [exists |-> FALSE, text |-> EmptyDict]
File(text) == [exists |-> TRUE, text |-> text]

\* ConfigManager.save: the file afterwards.
config_save(defaults, self_data, with_tomli_w) ==
    File(Dump(View(defaults, self_data), with_tomli_w))

\* ConfigManager.reload: self.data and the file afterwards; self.data is kept
\* when tomllib raises.
config_reload(defaults, self_data, file, with_tomli_w) ==
    IF ~file.exists
    THEN [raised |-> FALSE, data |-> copy(defaults),
          file |-> config_save(defaults, copy(defaults), with_tomli_w)]
    ELSE LET l == Load(file.text)
         IN  IF ~l.ok THEN [raised |-> TRUE, data |-> self_data, file |-> file]
             ELSE [raised |-> FALSE,
                   data |-> [section \in DOMAIN l.loaded |-> Own(l.loaded[section])]
                            @@ copy(defaults),
                   file |-> file]

\* self.data.setdefault(section, {})[key] = value: DEFAULT_CONFIG and self.data
\* afterwards.
config_set(defaults, self_data, section, key, value) ==
    IF section \in DOMAIN self_data /\ self_data[section].ref = "DEFAULT_CONFIG"
    THEN [defaults |-> Put(defaults, section, Put(defaults[section], key, value)),
          data |-> self_data]
    ELSE [defaults |-> defaults,
          data |-> Put(self_data, section,
                       Own(Put(IF section \in DOMAIN self_data THEN self_data[section].dict
                               ELSE EmptyDict, key, value)))]

NoManager == [alive |-> FALSE, path |-> "", data |-> EmptyDict]

NoConfigCall == [op |-> "none", manager |-> "", section |-> "", key |-> "",
                 value |-> NoValue, raised |-> FALSE, fresh |-> FALSE,
                 follows_set |-> FALSE, before |-> EmptyDict]

ConfigIdle ==
    /\ tomli_w \in BOOLEAN
    /\ DEFAULT_CONFIG = DefaultConfig
    /\ config_files = [p \in Paths |-> NoFile]
    /\ managers = [m \in ConfigManagers |-> NoManager]
    /\ config_log = <<>>
    /\ config_call = NoConfigCall

\* ConfigManager(path=path): the dataclass default, then __post_init__ reloads.
NewConfigManager ==
    /\ \E m \in ConfigManagers, path \in Paths :
        /\ ~managers[m].alive
        /\ \E r \in {config_reload(DEFAULT_CONFIG, copy(DEFAULT_CONFIG), config_files[path],
                                   tomli_w)} :
            /\ managers' = IF r.raised THEN managers
                           ELSE [managers EXCEPT ![m] = [alive |-> TRUE, path |-> path,
                                                         data |-> r.data]]
            /\ config_files' = [config_files EXCEPT ![path] = r.file]
            /\ config_call' = [NoConfigCall EXCEPT !.op = "new", !.manager = m,
                                                   !.raised = r.raised,
                                                   !.fresh = ~config_files[path].exists]
    /\ UNCHANGED <<tomli_w, DEFAULT_CONFIG, config_log>>
    /\ UNCHANGED <<tokenVars, settingsVars>>
    /\ UNCHANGED <<engineVars, registryVars, runner>>

\* ConfigManager.set(section, key, value)
ConfigSet ==
    /\ Len(config_log) < MaxSets
    /\ \E m \in ConfigManagers, sk \in SetKeys, value \in SetValues :
        /\ managers[m].alive
        /\ \E r \in {config_set(DEFAULT_CONFIG, managers[m].data, sk[1], sk[2], value)} :
            /\ DEFAULT_CONFIG' = r.defaults
            /\ managers' = [managers EXCEPT ![m].data = r.data]
            /\ config_files' = [config_files EXCEPT ![managers[m].path] =
                                            config_save(r.defaults, r.data, tomli_w)]
        /\ config_log' = Append(config_log, [manager |-> m, section |-> sk[1],
                                             key |-> sk[2], value |-> value])
        /\ config_call' = [NoConfigCall EXCEPT !.op = "set", !.manager = m,
                                               !.section = sk[1], !.key = sk[2],
                                               !.value = value]
    /\ UNCHANGED tomli_w
    /\ UNCHANGED <<tokenVars, settingsVars>>
    /\ UNCHANGED <<engineVars, registryVars, runner>>

\* ConfigManager.reload()
ConfigReload ==
    /\ \E m \in ConfigManagers :
        /\ managers[m].alive
        /\ \E r \in {config_reload(DEFAULT_CONFIG, managers[m].data,
                                   config_files[managers[m].path], tomli_w)} :
            /\ managers' = [managers EXCEPT ![m].data = r.data]
            /\ config_files' = [config_files EXCEPT ![managers[m].path] = r.file]
            /\ config_call' = [NoConfigCall EXCEPT
                                   !.op = "reload", !.manager = m, !.raised = r.raised,
                                   !.follows_set = (config_call.op = "set"
                                                    /\ config_call.manager = m),
                                   !.before = View(DEFAULT_CONFIG, managers[m].data)]
    /\ UNCHANGED <<tomli_w, DEFAULT_CONFIG, config_log>>
    /\ UNCHANGED <<tokenVars, settingsVars>>
    /\ UNCHANGED <<engineVars, registryVars, runner>>

ConfigNext ==
    \/ NewConfigManager
    \/ ConfigSet
    \/ ConfigReload

(***************************************************************************)
(* SettingsManager driven directly                                          *)
(***************************************************************************)

\* Bound: disable_plugin and enable_plugin calls made in one behaviour.
MaxToggles == 3

SettingsIdle == settings_log = <<>>

\* SettingsManager.disable_plugin(name)
SettingsDisable ==
    /\ Len(settings_log) < MaxToggles
    /\ \E name \in ToggleNames :
        /\ data' = disable_plugin(data, name)
        /\ store' = save(store, data')
        /\ settings_log' = Append(settings_log,
                                  [op |-> "disable_plugin", name |-> name,
                                   data |-> data, store |-> store])
    /\ UNCHANGED <<dyn, loaded, last, mon>>
    /\ UNCHANGED <<tokenVars, configVars>>
    /\ UNCHANGED <<engineVars, runner>>

\* SettingsManager.enable_plugin(name)
SettingsEnable ==
    /\ Len(settings_log) < MaxToggles
    /\ \E name \in ToggleNames :
        /\ data' = enable_plugin(data, name)
        /\ store' = IF name \in ToSet(data) THEN save(store, data') ELSE store
        /\ settings_log' = Append(settings_log,
                                  [op |-> "enable_plugin", name |-> name,
                                   data |-> data, store |-> store])
    /\ UNCHANGED <<dyn, loaded, last, mon>>
    /\ UNCHANGED <<tokenVars, configVars>>
    /\ UNCHANGED <<engineVars, runner>>

SettingsNext ==
    \/ SettingsDisable
    \/ SettingsEnable

\* The token, configuration and settings managers at rest.
UtilIdle == TokenIdle /\ (ConfigIdle /\ tomli_w) /\ SettingsIdle

\* The engine alone, git answering freely: the registry is not used.
InitEngine == EngineInit /\ RegistryIdle /\ RunnerIdle /\ UtilIdle

SpecEngine == InitEngine /\ [][EngineNext]_vars

\* The engine on the scripted histories.
InitHistory == (\E r \in ScriptedRepos : EngineStart(r)) /\ RegistryIdle /\ RunnerIdle /\ UtilIdle

SpecHistory == InitHistory /\ [][EngineNext]_vars

\* The registry alone: no bisection is running.
InitRegistry == RegistryInit /\ EngineInit /\ RunnerIdle /\ UtilIdle

SpecRegistry == InitRegistry /\ [][RegistryNext]_vars

\* GitCore._run alone.
InitRunner == EngineInit /\ RegistryIdle /\ RunnerIdle /\ UtilIdle

SpecRunner == InitRunner /\ [][RunnerNext]_vars

\* TokenManager alone.
InitToken == TokenIdle /\ (ConfigIdle /\ tomli_w) /\ SettingsIdle
             /\ EngineInit /\ RegistryIdle /\ RunnerIdle

SpecToken == InitToken /\ [][TokenNext]_vars

\* ConfigManager alone, with and without tomli_w installed.
InitConfig == ConfigIdle /\ TokenIdle /\ SettingsIdle
              /\ EngineInit /\ RegistryIdle /\ RunnerIdle

SpecConfig == InitConfig /\ [][ConfigNext]_vars

\* SettingsManager alone, on the file its construction leaves behind.
InitSettings == SettingsIdle /\ TokenIdle /\ (ConfigIdle /\ tomli_w)
                /\ EngineInit /\ RegistryIdle /\ RunnerIdle

SpecSettings == InitSettings /\ [][SettingsNext]_vars

(***************************************************************************)
(* Properties of the bisection engine (checked under SpecEngine)            *)
(***************************************************************************)

\* The sub-command of a recorded `git bisect <verb> ...` command.
\* The call ended with a setup command as its last command: that command failed.
SetupFailedAt(verbs) ==
    /\ pc = "done"
    /\ outcome = "raised"
    /\ cmds # <<>>
    /\ Verb(Last(cmds)) \in verbs

\* C1: once a find_breaking_commit call has ended, by return or by raise, a
\* final `git bisect reset` has been performed and the working tree is not in
\* an active bisection.
C1_NeverLeftBisecting ==
    pc = "done" => ~bisecting

\* C2: when `git bisect start` exits non-zero the call raises, and the recorded
\* commands hold a `git bisect reset` before the failing start and another one
\* after it.
C2_ResetBeforeAndAfterFailedStart ==
    SetupFailedAt({"start"}) =>
        \E i, j, k \in DOMAIN cmds :
            /\ i < j /\ j < k
            /\ cmds[i] = RESET
            /\ Verb(cmds[j]) = "start"
            /\ cmds[k] = RESET

\* C3: when start succeeded and `git bisect bad` or `git bisect good` exits
\* non-zero, the error reaches the caller only after a forced reset: a reset
\* follows the failing command and the started bisection is no longer active.
C3_ForcedResetAfterFailedMark ==
    SetupFailedAt({"bad", "good"}) =>
        /\ \E j, k \in DOMAIN cmds :
              /\ j < k
              /\ Verb(cmds[j]) \in {"bad", "good"}
              /\ cmds[k] = RESET
        /\ ~bisecting

\* The current call got as far as the command with this verb.
Reached(verb) == \E i \in DOMAIN cmds : Verb(cmds[i]) = verb

\* The test command exits 0 at every commit of the scripted history.
AlwaysPasses == \A i \in 1..repo.n : repo.exits[i] = 0

\* C14: with a test command that always exits 0, a find_breaking_commit call
\* that gets to run it ends by returning the inconclusive string, names no
\* culprit, and has performed the final reset.
C14_AlwaysPassingIsInconclusive ==
    (pc = "done" /\ Reached("run") /\ AlwaysPasses)
        => /\ outcome = "returned"
           /\ result = INCONCLUSIVE
           /\ Last(cmds) = RESET
           /\ ~bisecting

\* Commit c is the first commit at which the test command fails: it passes at
\* every commit before c and fails at c and at every commit after it.
FirstFailing(c) ==
    /\ \A i \in 1..(c - 1) : repo.exits[i] = 0
    /\ \A i \in c..repo.n : repo.exits[i] = 1

\* C15: on a linear history whose first failing commit is C, a call with an
\* ancestor as known_good and the head as known_bad returns
\* "<C> identified as the first bad commit.", naming C and no other commit.
C15_FirstFailingCommitNamed ==
    \A c \in 1..repo.n :
        (pc = "done" /\ Reached("run") /\ FirstFailing(c)
            /\ known_good = "v1" /\ known_bad \in {"HEAD", "main"})
            => /\ outcome = "returned"
               /\ result = ResultString(FullSha[c])

\* The same with the head given by its branch name: the revision keeps naming
\* the head while git checks out candidates.
FirstFailingNamedFromBranch ==
    \A c \in 1..repo.n :
        (pc = "done" /\ Reached("run") /\ FirstFailing(c)
            /\ known_good = "v1" /\ known_bad = "main")
            => /\ outcome = "returned"
               /\ result = ResultString(FullSha[c])

\* The run step exited non-zero and printed no line holding the phrase.
RunFailedWithoutVerdict ==
    /\ Reached("run")
    /\ run_returncode # 0
    /\ _parse_first_bad(output) = None

\* C16 as stated: when the run step exits non-zero without printing a line
\* holding "is the first bad commit", the call raises nothing and returns the
\* inconclusive string, never a string naming a commit.
C16_FailedRunIsInconclusive ==
    (pc = "done" /\ RunFailedWithoutVerdict)
        => /\ outcome = "returned"
           /\ result = INCONCLUSIVE

\* C16 amended: when the run step exits non-zero without printing a line
\* holding the phrase, the call raises nothing, asks `git bisect visualize`,
\* resets and returns: the inconclusive string when visualize exits non-zero or
\* prints no token, else the string naming the first token visualize printed.
C16_FailedRunFallsBackToVisualize ==
    (pc = "done" /\ RunFailedWithoutVerdict)
        => /\ outcome = "returned"
           /\ Reached("visualize")
           /\ Last(cmds) = RESET
           /\ result = IF visualize_result.returncode # 0
                           \/ FirstToken(visualize_result.stdout) = None
                        THEN INCONCLUSIVE
                        ELSE ResultString(FirstToken(visualize_result.stdout))

C16_Witness_FallbackNamesCommit ==
    /\ pc = "done"
    /\ RunFailedWithoutVerdict
    /\ test_command = "make test"
    /\ result = ResultString("c4")

\* CodeBreakAnalyzer's run has ended, by return or by raise.
AnalyzerEnded == plug.active /\ plug.status # "none"

\* C17: whenever the engine returned a result string, CodeBreakAnalyzer's run
\* returns a message holding that summary, with the report location appended
\* exactly when the summary holds the success phrase; a failing report step
\* does not keep run from returning.
C17_RunAlwaysReturnsMessage ==
    (AnalyzerEnded /\ outcome = "returned")
        => /\ plug.status = "returned"
           /\ plug.value[2] = result
           /\ Len(plug.value) = (IF SuccessCommit(result) # None THEN 3 ELSE 2)

\* C18: a run that produces its message calls show_popup exactly once, with
\* that message, when the context has a callable show_popup, and not at all
\* when the context is None or has none; the message is the same for every
\* context, and no run fails because of its context.
C18_PopupOnlyWhenCallable ==
    /\ (AnalyzerEnded /\ plug.status = "returned")
          => /\ plug.popups = (IF plug.app = "popup_method"
                               THEN << <<TITLE, plug.value>> >> ELSE <<>>)
             /\ plug.value = Message(result,
                                     IF SuccessCommit(result) # None
                                     THEN ReportPath(SuccessCommit(result)) ELSE None)
    /\ (AnalyzerEnded /\ plug.status = "raised")
          => /\ plug.popups = <<>>
             /\ outcome = "raised" \/ SuccessCommit(result) # None

C18_Witness_PopupShownOnce ==
    /\ AnalyzerEnded
    /\ plug.status = "returned"
    /\ plug.app = "popup_method"
    /\ Len(plug.popups) = 1
    /\ Len(plug.value) = 3

C18_Witness_NoPopupSameMessage ==
    /\ AnalyzerEnded
    /\ plug.status = "returned"
    /\ plug.app = "popup_attribute"
    /\ plug.popups = <<>>
    /\ Len(plug.value) = 3

(***************************************************************************)
(* Properties of GitCore._run (checked under SpecRunner)                    *)
(***************************************************************************)

\* What a returned GitRunResult carries.
CarriesResult ==
    /\ runner.value.returncode = runner.returncode
    /\ runner.value.stdout = runner.stdout
    /\ runner.value.stderr = runner.stderr

\* C19 as stated: _run makes one attempt per call and raises only when the git
\* executable is absent; in every other case, non-zero exit included, it
\* returns a result carrying the exit code, stdout and stderr.
C19_FailsOnlyWithoutGit ==
    runner.called
        => /\ runner.attempts = 1
           /\ runner.raised <=> ~runner.git_present
           /\ ~runner.raised => CarriesResult

\* C19 amended: _run makes one attempt per call and raises when the git
\* executable is absent or when check is true and the command exits non-zero;
\* with check false every exit code, non-zero included, comes back as a result
\* carrying the exit code, stdout and stderr.
C19_FailsWithoutGitOrWhenChecked ==
    runner.called
        => /\ runner.attempts = 1
           /\ runner.raised <=> (~runner.git_present
                                    \/ (runner.check /\ runner.returncode # 0))
           /\ ~runner.raised => CarriesResult

C19_Witness_NonZeroReturned ==
    /\ runner.called
    /\ ~runner.check
    /\ runner.returncode = 128
    /\ ~runner.raised
    /\ runner.value.returncode = 128

(***************************************************************************)
(* Properties of the plug-in registry (checked under SpecRegistry)          *)
(***************************************************************************)

\* The candidates of this layout, in iteration order.
Cands == search_paths(dyn)

\* A valid plug-in module: a loadable unit outside the reserved prefix whose
\* callable register hook returns an instance of the registry's Plugin class.
Valid(cand) ==
    /\ ~StartsWithDunder(cand.file)
    /\ Catalog[cand.file].kind \in {"file_py", "package"}
    /\ Catalog[cand.file].load = "ok"
    /\ Catalog[cand.file].register = "callable"
    /\ Catalog[cand.file].body = "returns"
    /\ Catalog[cand.file].cls = NEOGIT_PLUGIN

\* Positions, in iteration order, of the valid modules that register `name`.
Registrants(name) ==
    { i \in DOMAIN Cands : Valid(Cands[i]) /\ Catalog[Cands[i].file].name = name }

Min(S) == CHOOSE x \in S : \A y \in S : x <= y
Max(S) == CHOOSE x \in S : \A y \in S : x >= y

\* The entries of a snapshot carrying `name`.
Named(snapshot, name) == { i \in DOMAIN snapshot : snapshot[i].plugin.name = name }

\* A discover() call that computed (or tried to compute) a snapshot just ended.
Discovered == last.op = "discover"

\* C4: discover never raises because of a candidate entry; broken candidates
\* are skipped.
C4_DiscoverNeverRaises ==
    Discovered => ~last.raised

\* C5: discover(force=True) returns exactly one entry per valid plug-in and
\* none for the broken candidates, ordered by lower-cased name.
C5_ExactlyTheValidPluginsSorted ==
    (Discovered /\ last.force) =>
        /\ ~last.raised
        /\ Len(last.snapshot) = Cardinality({ i \in DOMAIN Cands : Valid(Cands[i]) })
        /\ { last.snapshot[i].plugin.origin : i \in DOMAIN last.snapshot }
              = { Cands[i] : i \in { j \in DOMAIN Cands : Valid(Cands[j]) } }
        /\ \A i, j \in DOMAIN last.snapshot :
              i < j => ~StrLess(SortKey(last.snapshot[j]), SortKey(last.snapshot[i]))

\* C6: run_plugin(name, ctx) raises the not-found ValueError, calling nothing,
\* when no entry of the snapshot has that name and is enabled; otherwise it
\* calls the run of such an entry exactly once with the repository handle and
\* ctx, and its outcome is that run's outcome, the returned value unchanged.
C6_RunPluginDispatch ==
    last.op = "run_plugin" =>
        LET hits == { i \in Named(last.snapshot, last.name) : last.snapshot[i].enabled }
        IN  IF hits = {}
            THEN last.raised /\ last.exc = "ValueError" /\ last.calls = <<>>
            ELSE /\ Len(last.calls) = 1
                 /\ last.calls[1].plugin \in { last.snapshot[i].plugin : i \in hits }
                 /\ last.calls[1].git = GIT
                 /\ last.calls[1].ctx = last.ctx
                 /\ LET run == PluginRun(last.calls[1].plugin, GIT, last.ctx)
                    IN  /\ last.raised = run.raised
                        /\ last.exc = run.exc
                        /\ ~run.raised => last.value = run.value

\* C6 witness: run_plugin on a registered but disabled name failed with ValueError.
C6_Witness_DisabledNotFound ==
    /\ last.op = "run_plugin"
    /\ last.raised /\ last.exc = "ValueError"
    /\ Named(last.snapshot, last.name) # {}

\* C7: with an empty disabled-set the snapshot holds an enabled entry named
\* "CodeBreakAnalyzer", and run_plugin("CodeBreakAnalyzer", ctx) does not fail
\* with plugin-not-found.
C7_CodeBreakAnalyzerReachable ==
    /\ (Discovered /\ ~last.raised /\ data = <<>>) =>
          \E i \in Named(last.snapshot, "CodeBreakAnalyzer") : last.snapshot[i].enabled
    /\ (last.op = "run_plugin" /\ last.name = "CodeBreakAnalyzer" /\ data = <<>>) =>
          ~(last.raised /\ last.exc = "ValueError")

\* C8: the plug-in names of a snapshot returned by discover are pairwise distinct.
C8_NamesDistinct ==
    (Discovered /\ ~last.raised) =>
        \A i, j \in DOMAIN last.snapshot :
            i # j => last.snapshot[i].plugin.name # last.snapshot[j].plugin.name

\* run_plugin called the run of some plug-in whose name several modules register.
RanDuplicate ==
    /\ last.op = "run_plugin"
    /\ Len(last.calls) = 1
    /\ Cardinality(Registrants(last.name)) >= 2

\* C9: of the modules registering one name the later in iteration order wins;
\* the snapshot holds it alone under that name and run_plugin calls its run.
C9_LaterRegistrantWins ==
    RanDuplicate =>
        /\ last.calls[1].plugin.origin = Cands[Max(Registrants(last.name))]
        /\ Cardinality(Named(last.snapshot, last.name)) = 1

\* What the code does with a name several modules register: the snapshot holds
\* one entry per registering module, in iteration order, and run_plugin calls
\* the run of the earliest of them.
DuplicateNameEarliestDispatched ==
    RanDuplicate =>
        /\ last.calls[1].plugin.origin = Cands[Min(Registrants(last.name))]
        /\ { last.snapshot[i].plugin.origin : i \in Named(last.snapshot, last.name) }
              = { Cands[i] : i \in Registrants(last.name) }
        /\ Cardinality(Named(last.snapshot, last.name))
              = Cardinality(Registrants(last.name))
        /\ \A i, j \in Named(last.snapshot, last.name) :
              i < j => \E a, b \in Registrants(last.name) :
                          /\ a < b
                          /\ Cands[a] = last.snapshot[i].plugin.origin
                          /\ Cands[b] = last.snapshot[j].plugin.origin

\* A name registered in two search locations was run.
DuplicateAcrossLocationsRan ==
    /\ RanDuplicate
    /\ \E a, b \in Registrants(last.name) : Cands[a].prefix # Cands[b].prefix

\* Entries of snapshot s holding plug-in p.
Holding(s, p) == { i \in DOMAIN s : s[i].plugin = p }

\* C10: for a plug-in p of the current snapshot, disable(p.name) then
\* discover(force=True) returns p with enabled = FALSE; a following
\* enable(p.name) then discover(force=True) returns p with enabled = TRUE; and
\* every entry under another name has the same flag in both snapshots.
C10_DisableEnableRoundTrip ==
    /\ mon.stage >= 2 =>
          \A b \in DOMAIN mon.before :
              mon.before[b].plugin.name = mon.name =>
                  /\ Holding(mon.snapA, mon.before[b].plugin) # {}
                  /\ \A i \in Holding(mon.snapA, mon.before[b].plugin) : ~mon.snapA[i].enabled
    /\ mon.stage = 4 =>
          /\ \A b \in DOMAIN mon.before :
                mon.before[b].plugin.name = mon.name =>
                    /\ Holding(mon.snapB, mon.before[b].plugin) # {}
                    /\ \A i \in Holding(mon.snapB, mon.before[b].plugin) : mon.snapB[i].enabled
          /\ Len(mon.snapA) = Len(mon.snapB)
          /\ \A i \in DOMAIN mon.snapA :
                mon.snapA[i].plugin.name # mon.name =>
                    /\ Holding(mon.snapB, mon.snapA[i].plugin) # {}
                    /\ \A j \in Holding(mon.snapB, mon.snapA[i].plugin) :
                          mon.snapB[j].enabled = mon.snapA[i].enabled

\* C10 witness: the four calls were made on a discovered plug-in while another
\* plug-in stayed disabled throughout.
C10_Witness_RoundTrip ==
    /\ mon.stage = 4
    /\ \E b \in DOMAIN mon.before : mon.before[b].plugin.name = mon.name
    /\ \E i \in DOMAIN mon.snapA :
          mon.snapA[i].plugin.name # mon.name /\ ~mon.snapA[i].enabled

\* Every entry of the snapshot is enabled exactly when its name is not disabled.
Agrees(snapshot, disabled_plugins) ==
    \A i \in DOMAIN snapshot :
        snapshot[i].enabled <=> snapshot[i].plugin.name \notin ToSet(disabled_plugins)

\* C11: a fresh PluginManager on a fresh SettingsManager reading the same
\* settings file sees exactly the disabled names its predecessor had after its
\* enable / disable calls, and its first discover() marks exactly the plug-ins
\* of those names as not enabled.
C11_DisabledSetPersists ==
    /\ mon.stage = 5 => /\ ToSet(data) = ToSet(mon.expect)
                        /\ loaded = None
    /\ mon.stage = 6 => /\ ToSet(data) = ToSet(mon.expect)
                        /\ Agrees(mon.snapA, mon.expect)

C11_Witness_FreshSeesDisabled ==
    /\ mon.stage = 6
    /\ Len(mon.expect) = 2
    /\ \E i \in DOMAIN mon.snapA : ~mon.snapA[i].enabled
    /\ \E i \in DOMAIN mon.snapA : mon.snapA[i].enabled

\* C12: discover(force=False) on a manager holding a cached snapshot returns
\* that snapshot, loads no candidate, does not read the disabled-set and keeps
\* the cache; two consecutive discover(force=False) calls return the same
\* entries in the same order.
C12_CachedDiscover ==
    [][ /\ (last'.op = "discover" /\ ~last'.force /\ loaded # None)
            => /\ ~last'.raised
               /\ last'.snapshot = loaded
               /\ loaded' = loaded
               /\ ~last'.read
               /\ last'.log = <<>>
        /\ (last.op = "discover" /\ ~last.force /\ ~last.raised
              /\ last'.op = "discover" /\ ~last'.force)
            => /\ ~last'.raised
               /\ last'.snapshot = last.snapshot ]_vars

C12_Witness_ServedFromCache ==
    /\ last.op = "discover"
    /\ ~last.force
    /\ ~last.read
    /\ Len(last.snapshot) >= 3
    /\ \E i \in DOMAIN last.snapshot : ~last.snapshot[i].enabled

\* The calls that work on a snapshot.
SnapshotOps == {"discover", "get_enabled_plugins", "run_plugin", "discover_failed"}

\* C13: enable and disable store the new disabled-set in the settings file and
\* drop the cache; the next discover, get_enabled_plugins or run_plugin, with
\* force=False too, reads the disabled-set and rescans, and every snapshot these
\* calls work on agrees with the disabled-set as it is after the call.
C13_ToggleInvalidates ==
    [][ /\ last'.op = "disable"
            => /\ last'.name \in ToSet(data')
               /\ reload(store').data = data'
               /\ loaded' = None
        /\ last'.op = "enable"
            => /\ last'.name \notin ToSet(data')
               /\ reload(store').data = data'
               /\ loaded' = None
        /\ (last.op \in {"enable", "disable"} /\ last'.op \in SnapshotOps)
            => last'.read
        /\ (last'.op \in SnapshotOps /\ last'.op # "discover_failed" /\ ~last'.raised)
            => Agrees(last'.snapshot, data')
        /\ last'.op = "run_plugin" => Agrees(last'.snapshot, data')
        /\ loaded' # None => Agrees(loaded', data') ]_vars

C13_Witness_RecomputedAfterToggle ==
    /\ last.op = "discover"
    /\ ~last.force
    /\ last.read
    /\ ~last.raised
    /\ data # <<>>
    /\ \E i \in DOMAIN last.snapshot : ~last.snapshot[i].enabled

\* The entries of a pass's log for one candidate.
Logged(log, cand) == { i \in DOMAIN log : log[i].cand = cand }

\* C20: in a discovery pass that returns a snapshot, every valid module whose
\* register hook takes zero arguments and every valid module whose hook takes
\* one argument had its hook's body run exactly once, and the Plugin it
\* returned is in the snapshot.
C20_BothAritiesRegistered ==
    (Discovered /\ last.read /\ ~last.raised)
        => \A k \in DOMAIN Cands :
              (Valid(Cands[k]) /\ Catalog[Cands[k].file].params \in {"none", "one"})
                  => /\ Cardinality(Logged(last.log, Cands[k])) = 1
                     /\ \A i \in Logged(last.log, Cands[k]) : last.log[i].runs = 1
                     /\ \E i \in DOMAIN last.snapshot :
                            last.snapshot[i].plugin = PluginOf(Cands[k])

C20_Witness_BothArities ==
    /\ Discovered
    /\ last.read
    /\ ~last.raised
    /\ \E i, j \in DOMAIN last.snapshot :
          /\ Catalog[last.snapshot[i].plugin.origin.file].params = "none"
          /\ Catalog[last.snapshot[j].plugin.origin.file].params = "one"
          /\ last.snapshot[j].plugin.origin.prefix = DYNAMIC_PREFIX

(***************************************************************************)
(* Claims on TokenManager (SpecToken)                                       *)
(***************************************************************************)

\* What the save and delete calls log[1..n] leave stored for a username: the
\* token of its last accepted save, unless a delete of that username came later.
RECURSIVE LastSaved(_, _, _)
LastSaved(log, n, username) ==
    IF n = 0 THEN None
    ELSE IF log[n].username = username /\ log[n].op = "delete" THEN None
    ELSE IF log[n].username = username /\ log[n].op = "save" /\ ~log[n].raised
    THEN log[n].token
    ELSE LastSaved(log, n - 1, username)

ReloadAfterSet == config_call.op = "reload" /\ config_call.follows_set

\* get(section, key) of the instance of the last call.
GetNow(section, key) ==
    get(DEFAULT_CONFIG, managers[config_call.manager].data, section, key)

\* After set(section, key, value) and a reload of the same instance,
\* get(section, key) is value and every other key reads as before the reload.
RoundTrip ==
    LET written == Last(config_log)
        before == config_call.before
    IN  /\ GetNow(written.section, written.key) = written.value
        /\ \A section \in DOMAIN before : \A key \in DOMAIN before[section] :
              <<section, key>> # <<written.section, written.key>> =>
                  GetNow(section, key) = before[section][key]

\* C22: for any section, key and value written with set(section, key, value),
\* a following reload() from the same file leaves get(section, key) equal to
\* that value, and the keys that were not set keep their previous values.
C22_SetReloadRoundTrip == ReloadAfterSet => RoundTrip

\* The round trip holds whenever tomli_w writes the file.
RoundTripWithTomliW == (ReloadAfterSet /\ tomli_w) => (~config_call.raised /\ RoundTrip)

\* Without tomli_w the only values that do not come back are strings holding
\* a backslash; a string holding a quote makes the reload raise.
RoundTripWithoutEscapes ==
    (ReloadAfterSet /\ Last(config_log).value \notin {WIN_PATH, QUOTED}) =>
        (~config_call.raised /\ RoundTrip)

\* The last call constructed an instance on a path where no file existed.
FreshManager == config_call.op = "new" /\ config_call.fresh /\ ~config_call.raised

\* C30: a ConfigManager constructed on a path with no existing file reports
\* the original defaults (github.default_org == "", ui.use_gui == False,
\* ui.theme == "system"), whatever set calls other instances of the process
\* made before.
C30_FreshManagerReportsOriginalDefaults ==
    FreshManager =>
        /\ GetNow("github", "default_org") = EMPTY
        /\ GetNow("ui", "use_gui") = PyFalse
        /\ GetNow("ui", "theme") = SYSTEM

\* The defaults are lost only through a set on an instance that was itself
\* constructed without a file: an instance read from a file owns its sections.
DefaultsChangeOnlyThroughSharedSections ==
    DEFAULT_CONFIG # DefaultConfig =>
        \E i \in DOMAIN config_log :
            /\ config_log[i].section \in DOMAIN DefaultConfig
            /\ DEFAULT_CONFIG[config_log[i].section][config_log[i].key] = config_log[i].value

(***************************************************************************)
(* Claims on the parse of the run output and the fallback (SpecEngine)      *)
(***************************************************************************)

\* The lines of the combined run output that contain the phrase.
MatchingLines == { i \in DOMAIN output : ContainsPhrase(output[i]) }

\* The call has returned its result string.
Returned == pc = "done" /\ outcome = "returned"

\* C23: the culprit is parsed from the combined stdout+stderr of the run
\* step by scanning the lines in order: it is the first token of the first line
\* that contains "is the first bad commit"; later matching lines are ignored.
C23_FirstMatchingLineNamesCulprit ==
    (Reached("run") /\ MatchingLines # {}) =>
        /\ bad_commit = output[Min(MatchingLines)][1]
        /\ Returned => result = ResultString(output[Min(MatchingLines)][1])

\* Two matching lines naming different commits: the first one is reported.
C23_Witness_LaterMatchIgnored ==
    /\ Returned
    /\ Cardinality(MatchingLines) = 2
    /\ output[Min(MatchingLines)][1] = "c1"
    /\ output[Max(MatchingLines)][1] = "c2"
    /\ result = "c1 identified as the first bad commit."

\* The lines of the visualize output that hold a token.
NonBlankLines == { i \in DOMAIN visualize_result.stdout : visualize_result.stdout[i] # <<>> }

\* C24: `git bisect visualize --oneline` is issued only when the run output
\* has no line containing the phrase; in that case the first token of its first
\* non-blank output line is reported as the culprit, and the result is
\* inconclusive exactly when visualize exits non-zero or prints no token.
C24_VisualizeFallback ==
    /\ Reached("visualize") => (Reached("run") /\ MatchingLines = {})
    /\ (Returned /\ MatchingLines = {}) =>
          /\ Reached("visualize")
          /\ IF visualize_result.returncode # 0 \/ NonBlankLines = {}
             THEN result = INCONCLUSIVE
             ELSE result = ResultString(visualize_result.stdout[Min(NonBlankLines)][1])

\* Visualize exits 0 and prints a blank line first: the token of the second
\* line is reported.
C24_Witness_BlankLineSkipped ==
    /\ Returned
    /\ MatchingLines = {}
    /\ visualize_result.returncode = 0
    /\ NonBlankLines # {}
    /\ Min(NonBlankLines) = 2
    /\ result = "c3 identified as the first bad commit."

(***************************************************************************)
(* Claims on the order of the bisection steps (SpecEngine)                  *)
(***************************************************************************)

\* The positions in cmds of the commands with a given git bisect subcommand.
Positions(verb) == { i \in DOMAIN cmds : Verb(cmds[i]) = verb }

Before(first, second) ==
    \A i \in Positions(first), j \in Positions(second) : i < j

\* What the claim and the code agree on, for a call whose setup succeeded: the
\* initial reset comes first, then start, then the marks, then one run step,
\* then at most one visualize, then the final reset; no step but the reset is
\* taken twice, and a good mark is made exactly when a good revision is given.
StepsInOrder ==
    /\ Verb(cmds[1]) = "reset"
    /\ Verb(cmds[2]) = "start"
    /\ Cardinality(Positions("start")) = 1
    /\ Cardinality(Positions("bad")) = 1
    /\ Cardinality(Positions("good")) = IF Truthy(known_good) THEN 1 ELSE 0
    /\ Cardinality(Positions("run")) = 1
    /\ Cardinality(Positions("visualize")) <= 1
    /\ Before("start", "bad") /\ Before("start", "good")
    /\ Before("bad", "run") /\ Before("good", "run")
    /\ Before("run", "visualize")
    /\ Positions("reset") = IF outcome = "returned" THEN {1, Len(cmds)} ELSE {1}

\* C25 as stated: a bisection whose setup succeeds passes through Idle,
\* Started, GoodMarked (only when a good revision is supplied), BadMarked,
\* Running, Resolved or Inconclusive, then Idle by reset; the good mark, when
\* supplied, precedes the bad mark, and no state is entered twice.
C25_GoodMarkedBeforeBadMarked ==
    Reached("run") => (StepsInOrder /\ Before("good", "bad"))

\* C25 as the code has it: the same order, with the bad mark made before the
\* good mark.
C25_BadMarkedBeforeGoodMarked ==
    Reached("run") => (StepsInOrder /\ Before("bad", "good"))

\* A call with a good revision that went through every step, the fallback
\* included.
C25_Witness_AllSteps ==
    /\ Returned
    /\ Truthy(known_good)
    /\ Len(cmds) = 7
    /\ [i \in 1..7 |-> Verb(cmds[i])] =
           <<"reset", "start", "bad", "good", "run", "visualize", "reset">>

(***************************************************************************)
(* Further claims on the registry (SpecRegistry)                            *)
(***************************************************************************)

\* The last call ran a discovery pass that produced a snapshot.
ComputedSnapshot == last.op \in SnapshotOps /\ last.read /\ ~last.raised

\* Two names that differ in letter case only.
CaseVariant(a, b) == a # b /\ Lower(a) = Lower(b)

\* C26: in every snapshot computed by discover, an entry is enabled exactly
\* when its plug-in name is not an element of the disabled-set read during
\* that pass; the match is exact and case-sensitive, so a disabled name that
\* differs from the plug-in's name only in letter case does not disable it.
C26_EnabledIffNotDisabled ==
    ComputedSnapshot =>
        /\ loaded = last.snapshot
        /\ \A i \in DOMAIN loaded :
              /\ loaded[i].enabled <=>
                    (\A j \in DOMAIN data : data[j] # loaded[i].plugin.name)
              /\ (\A j \in DOMAIN data : data[j] = loaded[i].plugin.name
                                           => ~loaded[i].enabled)
              /\ ((\E j \in DOMAIN data : CaseVariant(data[j], loaded[i].plugin.name))
                  /\ (\A j \in DOMAIN data : data[j] # loaded[i].plugin.name))
                      => loaded[i].enabled

\* "alpha" is disabled and "Alpha" is not: the plug-in named alpha is disabled
\* and the plug-in named Alpha stays enabled, in one snapshot.
C26_Witness_CaseVariantStaysEnabled ==
    /\ ComputedSnapshot
    /\ ToSet(data) = {"alpha"}
    /\ \E i, j \in DOMAIN loaded :
          /\ loaded[i].plugin.name = "alpha" /\ ~loaded[i].enabled
          /\ loaded[j].plugin.name = "Alpha" /\ loaded[j].enabled

\* A run_plugin call that reached the run of the matched plug-in.
RanPlugin(call) == call.op = "run_plugin" /\ call.calls # <<>>

\* The outcome of the call is the outcome of that run: its exception when it
\* raised, its value when it returned.
Propagated(call) ==
    LET run == PluginRun(call.calls[1].plugin, GIT, call.ctx)
    IN  /\ call.raised = run.raised
        /\ call.exc = run.exc
        /\ ~run.raised => call.value = run.value

\* Two values of self._loaded are the same: both None, or the same list.
SameCache(a, b) ==
    IF a # None /\ b # None THEN a = b ELSE ~(a # None) /\ ~(b # None)

\* What a registry call can change, the cached snapshot and the disabled-set,
\* with the identity of the last call.
RegistryView ==
    <<loaded # None, IF loaded # None THEN loaded ELSE <<>>, data, store,
      last.op, last.name, last.ctx, last.raised, last.exc>>

\* C27 as stated: a failure of the matched plug-in's run is propagated
\* unchanged, and the cached snapshot and the persisted disabled-set are the
\* same after run_plugin as before it, whether the run returned or raised.
C27_RunPluginLeavesCacheAsItWas ==
    [][RanPlugin(last') =>
          /\ Propagated(last')
          /\ SameCache(loaded', loaded)
          /\ data' = data /\ store' = store]_RegistryView

\* C27 as the code has it: the failure is propagated unchanged and the
\* disabled-set is untouched; a cached snapshot is kept as it was, and a
\* registry without one holds, after the call, the snapshot that the call's
\* own discovery pass computed.
C27_RunPluginKeepsOrFillsCache ==
    [][RanPlugin(last') =>
          /\ Propagated(last')
          /\ SameCache(loaded', IF loaded # None THEN loaded ELSE last'.snapshot)
          /\ last'.read = ~(loaded # None)
          /\ data' = data /\ store' = store]_RegistryView

\* The matched plug-in's run raised, and the registry holds the snapshot the
\* plug-in was found in.
C27_Witness_FailedRunPropagated ==
    /\ RanPlugin(last)
    /\ last.raised
    /\ last.exc = PluginRun(last.calls[1].plugin, GIT, last.ctx).exc
    /\ last.read
    /\ loaded = last.snapshot

\* The step in which `git bisect start`, `bad` or `good` exits non-zero: the
\* call ends at that command.
SetupFailure == pc \in {"start", "bad", "good"} /\ pc' = "done"

\* The non-zero responses git may have given to the command that just failed.
FailingResponses ==
    { resp \in Git(repo, Last(cmds')) : resp.returncode # 0 /\ resp.repo = repo' }

\* The changes of the call's position, commands and outcome.
CallView == <<pc, cmds, outcome, result>>

\* stderr when it has text, otherwise stdout.
StderrOrStdout(resp) ==
    IF Strip(resp.stderr) # "" THEN Strip(resp.stderr) ELSE Strip(resp.stdout)

\* stderr when it has text, otherwise stdout when it has text, otherwise the
\* text of the CalledProcessError itself.
StderrOrStdoutOrExc(resp) ==
    IF Strip(resp.stderr) # "" THEN Strip(resp.stderr)
    ELSE IF Strip(resp.stdout) # "" THEN Strip(resp.stdout)
    ELSE "Command returned non-zero exit status 1."

LastCallWasDisable ==
    { name \in ToggleNames :
        \E i \in DOMAIN settings_log :
            /\ settings_log[i].name = name
            /\ settings_log[i].op = "disable_plugin"
            /\ \A j \in DOMAIN settings_log : j > i => settings_log[j].name # name }

\* A list of names in strictly ascending order: sorted, and no name twice.
StrictlyAscending(names) ==
    \A i \in DOMAIN names : i < Len(names) => StrLess(names[i], names[i + 1])

\* data["disabled_plugins"] and the file's list after the i-th logged call.
ListAfter(i) ==
    IF i < Len(settings_log)
    THEN [data |-> settings_log[i + 1].data,
          stored |-> settings_log[i + 1].store.disabled_plugins]
    ELSE [data |-> data, stored |-> store.disabled_plugins]

ListBefore(i) ==
    [data |-> settings_log[i].data, stored |-> settings_log[i].store.disabled_plugins]

\* C29: from an empty disabled list, after any sequence of disable_plugin and
\* enable_plugin calls the stored list is sorted, has no duplicates and holds
\* exactly the names whose last call was a disable; a disable_plugin of a name
\* that is already disabled changes nothing, and an enable_plugin of a name
\* that is not disabled leaves the stored list as it was.
C29_DisabledListSortedAndExact ==
    /\ store.kind = "json" /\ store.has_key
    /\ store.disabled_plugins = data
    /\ StrictlyAscending(store.disabled_plugins)
    /\ ToSet(store.disabled_plugins) = LastCallWasDisable
    /\ \A i \in DOMAIN settings_log :
          LET call == settings_log[i]
          IN  /\ (call.op = "disable_plugin" /\ call.name \in ToSet(call.data))
                    => ListAfter(i) = ListBefore(i)
              /\ (call.op = "enable_plugin" /\ call.name \notin ToSet(call.data))
                    => ListAfter(i) = ListBefore(i)

\* "alpha" was disabled, then "Alpha", then "alpha" once more: the list holds
\* both names once, "Alpha" first.
C29_Witness_RepeatedDisable ==
    /\ Len(settings_log) = 3
    /\ \A i \in 1..3 : settings_log[i].op = "disable_plugin"
    /\ settings_log[1].name = "alpha"
    /\ settings_log[2].name = "Alpha"
    /\ settings_log[3].name = "alpha"
    /\ store.disabled_plugins = <<"Alpha", "alpha">>

\* "alpha" was disabled and enabled again, and then enabled once more while
\* it was not disabled: the list is empty.
C29_EnableOfEnabledName ==
    /\ Len(settings_log) = 3
    /\ settings_log[1].op = "disable_plugin"
    /\ settings_log[2].op = "enable_plugin"
    /\ settings_log[3].op = "enable_plugin"
    /\ \A i \in 1..3 : settings_log[i].name = "alpha"
    /\ store.disabled_plugins = <<>>

====
